---- MODULE Spec2Model ----
(***************************************************************************)
(* Model of the autoclicker's click scheduler                              *)
(* (src/autoclicker/core/click_engine.py, class ClickEngine).              *)
(*                                                                         *)
(* Time is counted in milliseconds and kept as differences: `elapsed` is   *)
(* time.time() - self.start_time, `sleepLeft` what remains of a thread's   *)
(* time.sleep, `joinLeft` what remains of a join timeout.  Time only moves *)
(* in the Tick action, which advances it to the earliest pending deadline  *)
(* (the end of a sleep, the end of a join timeout, or the instant a        *)
(* runtime limit is reached).  A thread whose deadline has passed need not *)
(* run at once, so every later instant is reached as well.  Every other    *)
(* step takes no time.                                                     *)
(*                                                                         *)
(* The engine's operations are called from one thread at a time: while a   *)
(* call is blocked in a join, no other operation is called.  The loop      *)
(* threads and the queue processor run concurrently with the calls.        *)
(***************************************************************************)
EXTENDS Integers, Naturals, Sequences, FiniteSets, TLC

\* ------------------------------------------------------------------ bounds
MaxThreads == 2
MaxQThreads == 1
MaxCount == 2
MaxCalls == 3
MaxAttempts == 3
MaxResets == 1
TimingsMaxLen == 2
MaxInterval == 5
MaxVariation == 5
MaxOps == 4
MaxFailures == 1
MaxPicks == 2
MaxPresses == 2

\* ------------------------------------------------------- program constants
JoinTimeoutMs == 1000
MsPerMinute == 60000
MinWaitMs == 1
PollSlice == 100
ScreenWidth == 10
ScreenHeight == 10

None == 0
Sentinel == <<>>

Threads == 1..MaxThreads
QThreads == 1..MaxQThreads

Max(a, b) == IF a >= b THEN a ELSE b
Min(a, b) == IF a <= b THEN a ELSE b

\* ------------------------------------------------------------------ inputs
\* The arguments of start_clicking.  interval, variation and burst_pause are
\* in milliseconds (burst_pause is handed to the engine in seconds; the
\* value here is that number of seconds expressed in ms).
\* on_click_complete is None ("none"), a callable that returns, or one that
\* raises.
Configs ==
  { [ x |-> 5, y |-> 5, interval |-> 60000, variation |-> 0,
      burst_clicks |-> 2, burst_pause |-> 1000,
      max_clicks |-> 1, auto_stop_minutes |-> 0,
      mouse_button |-> "left", click_type |-> "single",
      on_click_complete |-> "returns" ],
    [ x |-> 5, y |-> 5, interval |-> 60000, variation |-> 0,
      burst_clicks |-> 1, burst_pause |-> 1000,
      max_clicks |-> 0, auto_stop_minutes |-> 0,
      mouse_button |-> "left", click_type |-> "single",
      on_click_complete |-> "raises" ],
    [ x |-> 11, y |-> 5, interval |-> 60000, variation |-> 0,
      burst_clicks |-> 2, burst_pause |-> 1000,
      max_clicks |-> 0, auto_stop_minutes |-> 0,
      mouse_button |-> "left", click_type |-> "single",
      on_click_complete |-> "returns" ],
    [ x |-> 5, y |-> 5, interval |-> 60000, variation |-> 0,
      burst_clicks |-> 1, burst_pause |-> 1000,
      max_clicks |-> 0, auto_stop_minutes |-> 1,
      mouse_button |-> "left", click_type |-> "single",
      on_click_complete |-> "none" ] }

InjectorOutcomes == {"ok", "PyAutoGUIException", "FailSafeException"}

NoConfig == CHOOSE c \in Configs : TRUE

\* Beyond the longest runtime limit the elapsed time makes no difference.
MaxMinutes == CHOOSE m \in {c.auto_stop_minutes : c \in Configs} :
                \A c \in Configs : c.auto_stop_minutes <= m
ElapsedCap == MaxMinutes * MsPerMinute

VARIABLES
  elapsed,                  \* time.time() - self.start_time, ms, up to ElapsedCap
  is_running,               \* self.is_running
  click_thread,             \* self.click_thread: None or a loop thread
  click_count,              \* self.click_count
  stop_event,               \* self._stop_event
  click_queue,              \* self.click_queue
  queue_processor_thread,   \* self.queue_processor_thread
  max_queue_size,           \* self.max_queue_size
  enable_queuing,           \* self.enable_queuing
  nThreads,                 \* loop threads created so far
  pc,                       \* position of each loop thread in _click_loop
  args,                     \* the arguments each loop thread was started with
  idx,                      \* loop variable i of _perform_burst
  sleepLeft,                \* what remains of the sleep a loop thread is in
  nQThreads,                \* queue processor threads created so far
  qpc,                      \* position of each queue processor thread
  qitem,                    \* click_data held by a queue processor thread
  caller,                   \* position of the calling thread inside a blocking call
  joinLeft,                 \* what remains of that join's timeout
  ret,                      \* what the last start_clicking call returned
  calls,                    \* calls of the engine's operations so far
  runClicks,                \* clicks counted by the loop of the latest run
  exitReason,               \* why each loop thread left its while loop
  completeCalls,            \* invocations of each run's on_click_complete
  estopped,                 \* emergency_stop called, no successful start since
  injectedAfterEStop,       \* injector invocations while estopped
  enable_performance_monitoring,  \* self.enable_performance_monitoring
  performance_metrics,      \* self.performance_metrics (click_timings is a reference)
  deques,                   \* the content of each click_timings deque created so far
  resets,                   \* calls of reset_performance_metrics so far
  cpc,                      \* position of the clicking thread inside _perform_click
  total_time,               \* local total_time of the click in progress
  attempts,                 \* calls of _perform_click followed so far
  rpc,                      \* position of the reader inside get_performance_metrics
  metrics,                  \* local metrics of get_performance_metrics, then its result
  att,                      \* what the latest click attempt did to the metrics
  log,                      \* latencies of the successful clicks since the last reset
  call,                     \* the arguments of a function called on its own
  result,                   \* what that call computed
  files,                    \* the settings files
  heap,                     \* the content of each 'presets' dict object
  nObjs,                    \* dict objects created so far
  opened,                   \* whether the store instance was constructed
  settings_file,            \* self.settings_file of each store
  _settings,                \* self._settings of each store
  ops,                      \* operations on the stores so far
  failures,                 \* reads and writes of a file that failed so far
  explicit,                 \* per store, the last value given to set / update for each key
  lastSaved,                \* per file, how its last write ended and for which explicit values
  expected,                 \* per store, the presets its file had, then saved and not deleted
  savedHere,                \* per store, the names save_preset stored and nothing removed
  is_active,                \* CoordinatePicker.is_active
  on_coordinate_selected,   \* CoordinatePicker.on_coordinate_selected
  on_cancelled,             \* CoordinatePicker.on_cancelled
  hooks,                    \* handlers the mouse listener holds
  ppc,                      \* position of the window's thread and of the listener's thread
  retTo,                    \* where each thread's stop_picking returns to
  pending,                  \* handlers still to run for the latest button press
  picks,                    \* calls of start_picking so far
  presses,                  \* primary-button presses so far
  sessions,                 \* calls of start_picking that returned True
  sessionCancel,            \* the on_cancelled the latest of them was given
  selectedCalls,            \* invocations of on_coordinate_selected since the latest session began
  cancelledCalls,           \* invocations of on_cancelled since the latest session began
  status_var,               \* AutoclickerApp.status_var, the status the window shows
  click_count_var,          \* AutoclickerApp.click_count_var, the click count the window shows
  status_timer,             \* AutoclickerApp._status_timer: whether the periodic refresh is scheduled
  apc,                      \* the handler of the window that is running
  acalls,                   \* calls of the engine's operations when that handler began
  seen                      \* per loop thread, completion callbacks whose body has run

engineVars == <<is_running, click_thread, click_count, stop_event>>
queueVars == <<click_queue, queue_processor_thread, max_queue_size, enable_queuing>>
loopVars == <<nThreads, pc, args, idx, sleepLeft>>
qthreadVars == <<nQThreads, qpc, qitem>>
callerVars == <<caller, joinLeft>>
historyVars == <<runClicks, exitReason, completeCalls, estopped, injectedAfterEStop>>
schedVars == <<elapsed, engineVars, queueVars, loopVars, qthreadVars, callerVars,
               ret, calls, historyVars>>
metricVars == <<enable_performance_monitoring, performance_metrics, deques,
                resets, cpc, total_time, attempts, rpc, metrics, att, log>>
pureVars == <<call, result>>
storeVars == <<files, heap, nObjs, opened, settings_file, _settings, ops, failures,
               explicit, lastSaved, expected, savedHere>>
pickVars == <<is_active, on_coordinate_selected, on_cancelled, hooks, ppc, retTo,
              pending, picks, presses, sessions, sessionCancel, selectedCalls,
              cancelledCalls>>
appVars == <<status_var, click_count_var, status_timer, apc, acalls, seen>>
vars == <<schedVars, metricVars, pureVars, storeVars, pickVars, appVars>>

\* what each part of the program leaves alone
outsideSched == <<metricVars, pureVars, storeVars, pickVars, appVars>>
outsideMetrics == <<schedVars, pureVars, storeVars, pickVars, appVars>>
outsidePure == <<schedVars, metricVars, storeVars, pickVars, appVars>>
outsideStore == <<schedVars, metricVars, pickVars, appVars>>
outsidePicker == <<schedVars, metricVars, storeVars, appVars>>
outsideApp == <<metricVars, pureVars, storeVars, pickVars>>

\* ------------------------------------------------------ performance metrics
\* The latencies time.perf_counter can measure for a click, and float('inf'),
\* which is above all of them.
Latencies == {1, 2}
Inf == 3

\* get_performance_metrics has not been called yet
NoMetrics == [click_timings |-> 0, timings_read |-> <<>>,
              click_success_count |-> 0 - 1, click_error_count |-> 0 - 1,
              total_click_time |-> 0 - 1]

\* The dictionary built in __init__ and in reset_performance_metrics; d is
\* the new deque.
NewMetrics(d) ==
  [ click_timings |-> d,
    click_success_count |-> 0,
    click_error_count |-> 0,
    total_click_time |-> 0,
    min_click_time |-> Inf,
    max_click_time |-> 0 ]

\* deque(maxlen = TimingsMaxLen).append
DequeAppend(s, v) ==
  IF Len(s) < TimingsMaxLen THEN Append(s, v) ELSE Append(Tail(s), v)

\* ClickEngine.__init__, lines 25-29 and 46-49
SchedInit ==
  /\ elapsed = ElapsedCap
  /\ is_running = FALSE
  /\ click_thread = None
  /\ click_count = 0
  /\ stop_event = FALSE
  /\ click_queue = <<>>
  /\ queue_processor_thread = None
  /\ max_queue_size = 1000
  /\ enable_queuing = FALSE
  /\ nThreads = 0
  /\ pc = [t \in Threads |-> "unborn"]
  /\ args = [t \in Threads |-> NoConfig]
  /\ idx = [t \in Threads |-> 0]
  /\ sleepLeft = [t \in Threads |-> 0]
  /\ nQThreads = 0
  /\ qpc = [q \in QThreads |-> "unborn"]
  /\ qitem = [q \in QThreads |-> Sentinel]
  /\ caller = "idle"
  /\ joinLeft = 0
  /\ ret = "None"
  /\ calls = 0
  /\ runClicks = 0
  /\ exitReason = [t \in Threads |-> "none"]
  /\ completeCalls = [t \in Threads |-> 0]
  /\ estopped = FALSE
  /\ injectedAfterEStop = 0

\* no function is called on its own
NoCall == [fn |-> "none"]
NoResult == [fn |-> "none"]
NoCallInit == call = NoCall /\ result = NoResult

\* no settings store is constructed
NoStoreInit ==
  /\ files = <<>>
  /\ heap = <<>>
  /\ nObjs = 0
  /\ opened = <<>>
  /\ settings_file = <<>>
  /\ _settings = <<>>
  /\ ops = 0
  /\ failures = 0
  /\ explicit = <<>>
  /\ lastSaved = <<>>
  /\ expected = <<>>
  /\ savedHere = <<>>

\* no coordinate picker is constructed
NoPickerInit ==
  /\ is_active = FALSE
  /\ on_coordinate_selected = "None"
  /\ on_cancelled = "None"
  /\ hooks = 0
  /\ ppc = <<>>
  /\ retTo = <<>>
  /\ pending = 0
  /\ picks = 0
  /\ presses = 0
  /\ sessions = 0
  /\ sessionCancel = "None"
  /\ selectedCalls = 0
  /\ cancelledCalls = 0

\* the window as create_gui leaves it, main_window.py lines 283-289
WindowInit ==
  /\ status_var = "Stopped"
  /\ click_count_var = 0
  /\ status_timer = "none"
  /\ apc = "idle"
  /\ acalls = 0
  /\ seen = [t \in Threads |-> 0]

\* ClickEngine.__init__, lines 32-43
MonitorInit(enable) ==
  /\ enable_performance_monitoring = enable
  /\ performance_metrics = NewMetrics(0)
  /\ deques = [d \in 0..MaxResets |-> <<>>]
  /\ resets = 0
  /\ cpc = "idle"
  /\ total_time = 0
  /\ attempts = 0
  /\ rpc = "idle"
  /\ metrics = NoMetrics
  /\ att = [outcome |-> "none", errIncs |-> 0, touched |-> FALSE]
  /\ log = <<>>

\* ClickEngine(enable_performance_monitoring = False): the scheduler is the
\* same with monitoring on, the metrics take no part in its control flow.
Init == SchedInit /\ MonitorInit(FALSE) /\ NoCallInit /\ NoStoreInit /\ NoPickerInit /\ WindowInit

\* threading.Thread.is_alive
IsAlive(t) == pc[t] \notin {"unborn", "dead"}
QIsAlive(q) == qpc[q] \notin {"unborn", "dead"}

\* ------------------------------------------------------------ _perform_click
\* What one call of _perform_click does, given how the injector answers:
\* "queued" (the test of line 261 passed, the request goes to click_queue),
\* "ok" (the injector moved and clicked), or the exception the call raises.
\* With monitoring off the statements under enable_performance_monitoring
\* are skipped.
ClickResult(x, y, mouse_button, inj) ==
  IF enable_queuing /\ Len(click_queue) < max_queue_size THEN "queued"
  ELSE IF ~(0 <= x /\ x <= ScreenWidth /\ 0 <= y /\ y <= ScreenHeight)
       THEN "CoordinateError"
  ELSE IF inj = "FailSafeException" THEN "SafetyError"
  ELSE IF inj = "PyAutoGUIException" THEN "ClickEngineError"
  ELSE IF mouse_button \notin {"left", "right", "middle"} THEN "ClickEngineError"
  ELSE "ok"

\* The call reached pyautogui.moveTo: the injector was invoked.
InjectorInvoked(res) == res \in {"ok", "SafetyError", "ClickEngineError"}

Raises(res) == res \in {"CoordinateError", "SafetyError", "ClickEngineError"}

\* The effect of lines 266-321 on the injector record.  The test of line 261
\* and the append of line 263 are two steps: another thread can run between.
PerformClick(x, y, mouse_button, click_type, res) ==
  /\ UNCHANGED click_queue
  /\ injectedAfterEStop' = IF estopped /\ InjectorInvoked(res)
                           THEN injectedAfterEStop + 1
                           ELSE injectedAfterEStop

\* ---------------------------------------------------------------- _should_stop
\* _should_stop with a strict comparison of the elapsed minutes
ShouldStop_strict(max_clicks, auto_stop_minutes) ==
  IF max_clicks > 0 /\ click_count >= max_clicks THEN TRUE
  ELSE IF auto_stop_minutes > 0
          /\ elapsed > auto_stop_minutes * MsPerMinute THEN TRUE
  ELSE FALSE

ShouldStop(max_clicks, auto_stop_minutes) ==
  IF max_clicks > 0 /\ click_count >= max_clicks THEN TRUE
  ELSE IF auto_stop_minutes > 0
          /\ elapsed >= auto_stop_minutes * MsPerMinute THEN TRUE
  ELSE FALSE

\* ------------------------------------------------------- _wait_with_variation
\* r is the value random.randint(-variation, variation) returned.
\* lines 325-328
ActualInterval(interval, variation, r) ==
  IF variation > 0 THEN interval + r ELSE interval

\* line 331 with a floor of one second
WaitTimeMs_floor_seconds(interval, variation, r) ==
  Max(ActualInterval(interval, variation, r), 1000 * MinWaitMs)

\* line 331, in milliseconds
WaitTimeMs(interval, variation, r) ==
  Max(ActualInterval(interval, variation, r), MinWaitMs)

Running == is_running /\ ~stop_event

\* ------------------------------------------------------------------ _click_loop
\* line 205: the while condition
LoopWhile(t) ==
  /\ pc[t] = "while"
  /\ IF Running
     THEN /\ pc' = [pc EXCEPT ![t] = "should_stop"]
          /\ UNCHANGED exitReason
     ELSE /\ pc' = [pc EXCEPT ![t] = "complete"]
          /\ exitReason' = [exitReason EXCEPT ![t] = "stopped"]
  /\ UNCHANGED <<outsideSched, elapsed, engineVars, queueVars, nThreads, args, idx, sleepLeft,
                 qthreadVars, callerVars, ret, calls, runClicks, completeCalls,
                 estopped, injectedAfterEStop>>

\* _click_loop noting a reached limit and leaving only after one more burst
LoopShouldStop_after_burst(t) ==
  /\ pc[t] = "should_stop"
  /\ IF ShouldStop(args[t].max_clicks, args[t].auto_stop_minutes)
     THEN /\ pc' = [pc EXCEPT ![t] = "for"]
          /\ idx' = [idx EXCEPT ![t] = 0]
          /\ exitReason' = [exitReason EXCEPT ![t] = "limit"]
     ELSE /\ pc' = [pc EXCEPT ![t] = "for"]
          /\ idx' = [idx EXCEPT ![t] = 0]
          /\ UNCHANGED exitReason
  /\ UNCHANGED <<outsideSched, elapsed, engineVars, queueVars, nThreads, args, sleepLeft,
                 qthreadVars, callerVars, ret, calls, runClicks, completeCalls,
                 estopped, injectedAfterEStop>>

\* lines 207-208: the limit check, then the entry of _perform_burst
LoopShouldStop(t) ==
  /\ pc[t] = "should_stop"
  /\ IF ShouldStop(args[t].max_clicks, args[t].auto_stop_minutes)
     THEN /\ pc' = [pc EXCEPT ![t] = "complete"]
          /\ exitReason' = [exitReason EXCEPT ![t] = "limit"]
          /\ UNCHANGED idx
     ELSE /\ pc' = [pc EXCEPT ![t] = "for"]
          /\ idx' = [idx EXCEPT ![t] = 0]
          /\ UNCHANGED exitReason
  /\ UNCHANGED <<outsideSched, elapsed, engineVars, queueVars, nThreads, args, sleepLeft,
                 qthreadVars, callerVars, ret, calls, runClicks, completeCalls,
                 estopped, injectedAfterEStop>>

\* lines 244-246: the head of the for loop and its checkpoint
BurstFor(t) ==
  /\ pc[t] = "for"
  /\ pc' = [pc EXCEPT ![t] =
              IF idx[t] < args[t].burst_clicks /\ Running
              THEN "perform_click" ELSE "if_wait"]
  /\ UNCHANGED <<outsideSched, elapsed, engineVars, queueVars, nThreads, args, idx, sleepLeft,
                 qthreadVars, callerVars, ret, calls, historyVars>>

\* line 248: the click; an exception leaves _perform_burst and the while loop
BurstPerformClick(t, inj) ==
  /\ pc[t] = "perform_click"
  /\ LET res == ClickResult(args[t].x, args[t].y, args[t].mouse_button, inj)
     IN  /\ PerformClick(args[t].x, args[t].y, args[t].mouse_button,
                         args[t].click_type, res)
         /\ IF Raises(res)
            THEN /\ pc' = [pc EXCEPT ![t] = "except"]
                 /\ exitReason' = [exitReason EXCEPT ![t] = "click_error"]
            ELSE /\ pc' = [pc EXCEPT ![t] =
                            IF res = "queued" THEN "enqueue" ELSE "count"]
                 /\ UNCHANGED exitReason
  /\ UNCHANGED <<outsideSched, elapsed, engineVars, queue_processor_thread, max_queue_size,
                 enable_queuing, nThreads, args, idx, sleepLeft, qthreadVars,
                 callerVars, ret, calls, runClicks, completeCalls, estopped>>

\* lines 263-264 in the loop thread: append the request and return
BurstEnqueue(t) ==
  /\ pc[t] = "enqueue"
  /\ click_queue' = Append(click_queue, <<args[t].x, args[t].y,
                                          args[t].mouse_button, args[t].click_type>>)
  /\ pc' = [pc EXCEPT ![t] = "count"]
  /\ UNCHANGED <<outsideSched, elapsed, engineVars, queue_processor_thread,
                 max_queue_size, enable_queuing, nThreads, args, idx, sleepLeft,
                 qthreadVars, callerVars, ret, calls, historyVars>>

\* _perform_burst pausing after every click of a burst, the last one too
BurstCount_always_sleeps(t) ==
  /\ pc[t] = "count"
  /\ click_count < MaxCount
  /\ click_count' = click_count + 1
  /\ runClicks' = IF t = nThreads THEN runClicks + 1 ELSE runClicks
  /\ IF args[t].burst_clicks > 1
     THEN /\ pc' = [pc EXCEPT ![t] = "burst_sleep"]
          /\ sleepLeft' = [sleepLeft EXCEPT ![t] = args[t].burst_pause]
          /\ UNCHANGED idx
     ELSE /\ pc' = [pc EXCEPT ![t] = "for"]
          /\ idx' = [idx EXCEPT ![t] = @ + 1]
          /\ UNCHANGED sleepLeft
  /\ UNCHANGED <<outsideSched, elapsed, is_running, click_thread, stop_event,
                 queueVars, nThreads, args, qthreadVars, callerVars, ret, calls,
                 exitReason, completeCalls, estopped,
                 injectedAfterEStop>>

\* lines 249-253: count the click, then pause unless it was the last of the burst
BurstCount(t) ==
  /\ pc[t] = "count"
  /\ click_count < MaxCount
  /\ click_count' = click_count + 1
  /\ runClicks' = IF t = nThreads THEN runClicks + 1 ELSE runClicks
  /\ IF args[t].burst_clicks > 1 /\ idx[t] < args[t].burst_clicks - 1
     THEN /\ pc' = [pc EXCEPT ![t] = "burst_sleep"]
          /\ sleepLeft' = [sleepLeft EXCEPT ![t] = args[t].burst_pause]
          /\ UNCHANGED idx
     ELSE /\ pc' = [pc EXCEPT ![t] = "for"]
          /\ idx' = [idx EXCEPT ![t] = @ + 1]
          /\ UNCHANGED sleepLeft
  /\ UNCHANGED <<outsideSched, elapsed, is_running, click_thread, stop_event,
                 queueVars, nThreads, args, qthreadVars, callerVars, ret, calls,
                 exitReason, completeCalls, estopped,
                 injectedAfterEStop>>

\* line 253: time.sleep(burst_pause) returns
BurstSleepEnd(t) ==
  /\ pc[t] = "burst_sleep"
  /\ sleepLeft[t] = 0
  /\ pc' = [pc EXCEPT ![t] = "for"]
  /\ idx' = [idx EXCEPT ![t] = @ + 1]
  /\ sleepLeft' = [sleepLeft EXCEPT ![t] = 0]
  /\ UNCHANGED <<outsideSched, elapsed, engineVars, queueVars, nThreads, args,
                 qthreadVars, callerVars, ret, calls, historyVars>>

\* lines 215-216 and 323-332: the checkpoint after the burst, then the sleep
LoopIfWait(t) ==
  /\ pc[t] = "if_wait"
  /\ IF Running
     THEN \E r \in (0 - args[t].variation)..args[t].variation :
            /\ pc' = [pc EXCEPT ![t] = "wait_sleep"]
            /\ sleepLeft' = [sleepLeft EXCEPT ![t] =
                 WaitTimeMs(args[t].interval, args[t].variation, r)]
     ELSE /\ pc' = [pc EXCEPT ![t] = "while"]
          /\ UNCHANGED sleepLeft
  /\ UNCHANGED <<outsideSched, elapsed, engineVars, queueVars, nThreads, args, idx,
                 qthreadVars, callerVars, ret, calls, historyVars>>

\* line 332: time.sleep(wait_time) returns
WaitSleepEnd(t) ==
  /\ pc[t] = "wait_sleep"
  /\ sleepLeft[t] = 0
  /\ pc' = [pc EXCEPT ![t] = "while"]
  /\ sleepLeft' = [sleepLeft EXCEPT ![t] = 0]
  /\ UNCHANGED <<outsideSched, elapsed, engineVars, queueVars, nThreads, args, idx,
                 qthreadVars, callerVars, ret, calls, historyVars>>

\* lines 219-220: the completion callback; if it raises, control goes to 222
LoopComplete(t) ==
  /\ pc[t] = "complete"
  /\ IF args[t].on_click_complete = "none"
     THEN /\ pc' = [pc EXCEPT ![t] = "dead"]
          /\ UNCHANGED completeCalls
     ELSE /\ completeCalls' = [completeCalls EXCEPT ![t] = @ + 1]
          /\ pc' = [pc EXCEPT ![t] =
               IF args[t].on_click_complete = "raises" THEN "except" ELSE "dead"]
  /\ UNCHANGED <<outsideSched, elapsed, engineVars, queueVars, nThreads, args, idx, sleepLeft,
                 qthreadVars, callerVars, ret, calls, runClicks, exitReason,
                 estopped, injectedAfterEStop>>

\* lines 222-225: the handler calls the completion callback
LoopExcept(t) ==
  /\ pc[t] = "except"
  /\ completeCalls' = [completeCalls EXCEPT ![t] =
       IF args[t].on_click_complete = "none" THEN @ ELSE @ + 1]
  /\ pc' = [pc EXCEPT ![t] = "dead"]
  /\ UNCHANGED <<outsideSched, elapsed, engineVars, queueVars, nThreads, args, idx, sleepLeft,
                 qthreadVars, callerVars, ret, calls, runClicks, exitReason,
                 estopped, injectedAfterEStop>>

\* ------------------------------------------------------- _process_click_queue
\* lines 166-168: take the next entry; the sentinel ends the thread.  On an
\* empty queue the thread sleeps 1 ms and retries, which changes nothing.
QueuePop(q) ==
  /\ qpc[q] = "popleft"
  /\ click_queue # <<>>
  /\ click_queue' = Tail(click_queue)
  /\ IF Head(click_queue) = Sentinel
     THEN /\ qpc' = [qpc EXCEPT ![q] = "dead"]
          /\ UNCHANGED qitem
     ELSE /\ qpc' = [qpc EXCEPT ![q] = "perform_click"]
          /\ qitem' = [qitem EXCEPT ![q] = Head(click_queue)]
  /\ UNCHANGED <<outsideSched, elapsed, engineVars, queue_processor_thread, max_queue_size,
                 enable_queuing, loopVars, nQThreads, callerVars, ret, calls,
                 historyVars>>

\* lines 170-177: hand the entry to _perform_click; exceptions are printed
QueuePerformClick(q, inj) ==
  /\ qpc[q] = "perform_click"
  /\ LET d == qitem[q]
         res == ClickResult(d[1], d[2], d[3], inj)
     IN  /\ PerformClick(d[1], d[2], d[3], d[4], res)
         /\ IF res = "queued"
            THEN /\ qpc' = [qpc EXCEPT ![q] = "enqueue"]
                 /\ UNCHANGED qitem
            ELSE /\ qpc' = [qpc EXCEPT ![q] = "popleft"]
                 /\ qitem' = [qitem EXCEPT ![q] = Sentinel]
  /\ UNCHANGED <<outsideSched, elapsed, engineVars, queue_processor_thread, max_queue_size,
                 enable_queuing, loopVars, nQThreads, callerVars, ret, calls,
                 runClicks, exitReason, completeCalls, estopped>>

\* lines 263-264 in the queue processor: the request it took goes back
QueueEnqueue(q) ==
  /\ qpc[q] = "enqueue"
  /\ click_queue' = Append(click_queue, qitem[q])
  /\ qpc' = [qpc EXCEPT ![q] = "popleft"]
  /\ qitem' = [qitem EXCEPT ![q] = Sentinel]
  /\ UNCHANGED <<outsideSched, elapsed, engineVars, queue_processor_thread,
                 max_queue_size, enable_queuing, loopVars, nQThreads, callerVars,
                 ret, calls, historyVars>>

\* ------------------------------------------------------------- start_clicking
\* start_clicking resetting the counter before it looks at is_running
start_clicking_reset_first(a) ==
  /\ caller = "idle"
  /\ calls < MaxCalls
  /\ calls' = calls + 1
  /\ click_count' = 0
  /\ IF is_running
     THEN /\ ret' = "False"
          /\ UNCHANGED <<outsideSched, elapsed, is_running, click_thread, stop_event,
                         queueVars, loopVars, qthreadVars, callerVars,
                         historyVars>>
     ELSE /\ nThreads < MaxThreads
          /\ runClicks' = 0
          /\ is_running' = TRUE
          /\ elapsed' = 0
          /\ stop_event' = FALSE
          /\ nThreads' = nThreads + 1
          /\ click_thread' = nThreads + 1
          /\ pc' = [pc EXCEPT ![nThreads + 1] = "while"]
          /\ args' = [args EXCEPT ![nThreads + 1] = a]
          /\ ret' = "True"
          /\ estopped' = FALSE
          /\ injectedAfterEStop' = 0
          /\ UNCHANGED <<outsideSched, queueVars, idx, sleepLeft, qthreadVars, callerVars,
                         exitReason, completeCalls>>

start_clicking(a) ==
  /\ caller = "idle"
  /\ calls < MaxCalls
  /\ calls' = calls + 1
  /\ IF is_running
     THEN /\ ret' = "False"
          /\ UNCHANGED <<outsideSched, elapsed, engineVars, queueVars, loopVars, qthreadVars,
                         callerVars, historyVars>>
     ELSE /\ nThreads < MaxThreads
          /\ runClicks' = 0
          /\ is_running' = TRUE
          /\ click_count' = 0
          /\ elapsed' = 0
          /\ stop_event' = FALSE
          /\ nThreads' = nThreads + 1
          /\ click_thread' = nThreads + 1
          /\ pc' = [pc EXCEPT ![nThreads + 1] = "while"]
          /\ args' = [args EXCEPT ![nThreads + 1] = a]
          /\ ret' = "True"
          /\ estopped' = FALSE
          /\ injectedAfterEStop' = 0
          /\ UNCHANGED <<outsideSched, queueVars, idx, sleepLeft, qthreadVars, callerVars,
                         exitReason, completeCalls>>

\* ------------------------------------------------------------- emergency_stop
emergency_stop ==
  /\ caller = "idle"
  /\ calls < MaxCalls
  /\ calls' = calls + 1
  /\ is_running' = FALSE
  /\ stop_event' = TRUE
  /\ estopped' = TRUE
  /\ injectedAfterEStop' = 0
  /\ UNCHANGED <<outsideSched, elapsed, click_thread, click_count, queueVars,
                 loopVars, qthreadVars, callerVars, ret, runClicks,
                 exitReason, completeCalls>>

\* -------------------------------------------------------------- stop_clicking
\* lines 188-191, entered with the thread reference ct
JoinClickThread(ct) ==
  IF ct # None /\ IsAlive(ct)
  THEN /\ caller' = "stop_join_thread"
       /\ joinLeft' = JoinTimeoutMs
       /\ UNCHANGED click_thread
  ELSE /\ click_thread' = None
       /\ caller' = "idle"
       /\ joinLeft' = 0

\* lines 181-185: set the flags, then _stop_queue_processor up to its join
stop_clicking ==
  /\ caller = "idle"
  /\ calls < MaxCalls
  /\ calls' = calls + 1
  /\ is_running' = FALSE
  /\ stop_event' = TRUE
  /\ IF queue_processor_thread # None
     THEN /\ click_queue' = Append(click_queue, Sentinel)
          /\ caller' = "stop_join_queue"
          /\ joinLeft' = JoinTimeoutMs
          /\ UNCHANGED click_thread
     ELSE /\ JoinClickThread(click_thread)
          /\ UNCHANGED click_queue
  /\ UNCHANGED <<outsideSched, elapsed, click_count, queue_processor_thread,
                 max_queue_size, enable_queuing, loopVars, qthreadVars, ret,
                 historyVars>>

\* lines 159-160 inside stop_clicking, then on to line 188
StopJoinQueue ==
  /\ caller = "stop_join_queue"
  /\ ~QIsAlive(queue_processor_thread) \/ joinLeft = 0
  /\ queue_processor_thread' = None
  /\ JoinClickThread(click_thread)
  /\ UNCHANGED <<outsideSched, elapsed, is_running, click_count, stop_event,
                 click_queue, max_queue_size, enable_queuing, loopVars,
                 qthreadVars, ret, calls, historyVars>>

\* lines 189-191
StopJoinThread ==
  /\ caller = "stop_join_thread"
  /\ ~IsAlive(click_thread) \/ joinLeft = 0
  /\ click_thread' = None
  /\ caller' = "idle"
  /\ joinLeft' = 0
  /\ UNCHANGED <<outsideSched, elapsed, is_running, click_count, stop_event,
                 queueVars, loopVars, qthreadVars, ret, calls, historyVars>>

\* ------------------------------------------------------- enable_click_queuing
QueueSizes == {1}

enable_click_queuing(enable, size) ==
  /\ caller = "idle"
  /\ calls < MaxCalls
  /\ calls' = calls + 1
  /\ enable_queuing' = enable
  /\ max_queue_size' = size
  /\ IF enable /\ queue_processor_thread = None
     THEN \* _start_queue_processor
          /\ nQThreads < MaxQThreads
          /\ nQThreads' = nQThreads + 1
          /\ queue_processor_thread' = nQThreads + 1
          /\ qpc' = [qpc EXCEPT ![nQThreads + 1] = "popleft"]
          /\ UNCHANGED <<click_queue, qitem, callerVars>>
     ELSE IF ~enable /\ queue_processor_thread # None
     THEN \* _stop_queue_processor up to its join
          /\ click_queue' = Append(click_queue, Sentinel)
          /\ caller' = "enable_join_queue"
          /\ joinLeft' = JoinTimeoutMs
          /\ UNCHANGED <<queue_processor_thread, qthreadVars>>
     ELSE UNCHANGED <<click_queue, queue_processor_thread, qthreadVars,
                      callerVars>>
  /\ UNCHANGED <<outsideSched, elapsed, engineVars, loopVars, ret, historyVars>>

\* lines 159-160 inside enable_click_queuing(False)
EnableJoinQueue ==
  /\ caller = "enable_join_queue"
  /\ ~QIsAlive(queue_processor_thread) \/ joinLeft = 0
  /\ queue_processor_thread' = None
  /\ caller' = "idle"
  /\ joinLeft' = 0
  /\ UNCHANGED <<outsideSched, elapsed, engineVars, click_queue, max_queue_size, enable_queuing,
                 loopVars, qthreadVars, ret, calls, historyVars>>

\* ------------------------------------------------------------------- the clock
Sleeping(t) == pc[t] \in {"burst_sleep", "wait_sleep"}

\* The time to each pending deadline.
Pending ==
  {sleepLeft[t] : t \in {u \in Threads : Sleeping(u)}}
  \cup (IF caller # "idle" THEN {joinLeft} ELSE {})
  \cup {args[t].auto_stop_minutes * MsPerMinute - elapsed :
          t \in {u \in Threads : IsAlive(u) /\ args[u].auto_stop_minutes > 0}}

Tick ==
  /\ \E d \in Pending :
       /\ d > 0
       /\ \A e \in Pending : e > 0 => d <= e
       /\ elapsed' = Min(elapsed + d, ElapsedCap)
       /\ sleepLeft' = [t \in Threads |-> Max(sleepLeft[t] - d, 0)]
       /\ joinLeft' = Max(joinLeft - d, 0)
  /\ UNCHANGED <<outsideSched, engineVars, queueVars, nThreads, pc, args, idx,
                 qthreadVars, caller, ret, calls, historyVars>>

\* ------------------------------------------------------------ the specification
Next ==
  \/ \E a \in Configs : start_clicking(a)
  \/ emergency_stop
  \/ stop_clicking
  \/ StopJoinQueue
  \/ StopJoinThread
  \/ \E e \in BOOLEAN, n \in QueueSizes : enable_click_queuing(e, n)
  \/ EnableJoinQueue
  \/ \E t \in Threads : LoopWhile(t)
  \/ \E t \in Threads : LoopShouldStop(t)
  \/ \E t \in Threads : BurstFor(t)
  \/ \E t \in Threads, inj \in InjectorOutcomes : BurstPerformClick(t, inj)
  \/ \E t \in Threads : BurstEnqueue(t)
  \/ \E t \in Threads : BurstCount(t)
  \/ \E t \in Threads : BurstSleepEnd(t)
  \/ \E t \in Threads : LoopIfWait(t)
  \/ \E t \in Threads : WaitSleepEnd(t)
  \/ \E t \in Threads : LoopComplete(t)
  \/ \E t \in Threads : LoopExcept(t)
  \/ \E q \in QThreads : QueuePop(q)
  \/ \E q \in QThreads, inj \in InjectorOutcomes : QueuePerformClick(q, inj)
  \/ \E q \in QThreads : QueueEnqueue(q)
  \/ Tick

Spec == Init /\ [][Next]_vars

\* ================================================================ the metrics
\* MetricsSpec follows one thread through successive calls of _perform_click,
\* statement by statement, on an engine built with monitoring on and queuing
\* off, while the calling thread reads or resets the metrics.  The scheduler
\* state takes no part in lines 266-321 and stays as constructed.
ClickXs == {5, 11}
MouseButtons == {"left", "side"}
MoveOutcomes == {"ok", "PyAutoGUIException"}

MetricsInit == SchedInit /\ MonitorInit(TRUE) /\ NoCallInit /\ NoStoreInit /\ NoPickerInit /\ WindowInit

\* lines 266-290: where control is after the move and the click.  move is
\* what pyautogui.moveTo does, inj what the click function does.
ClickPath(x, y, mouse_button, move, inj) ==
  IF ~(0 <= x /\ x <= ScreenWidth /\ 0 <= y /\ y <= ScreenHeight)
  THEN "except_custom"
  ELSE IF move # "ok" THEN "except_unexpected"
  ELSE IF mouse_button \notin {"left", "right", "middle"} THEN "except_custom"
  ELSE IF inj = "FailSafeException" THEN "except_failsafe"
  ELSE IF inj = "PyAutoGUIException" THEN "except_pyautogui"
  ELSE IF enable_performance_monitoring THEN "record_timings"
  ELSE "idle"

\* lines 257-294: the call up to the first statement that touches the metrics
PerformClickEnter(x, mouse_button, move, inj, lat) ==
  /\ cpc = "idle"
  /\ attempts < MaxAttempts
  /\ ~(enable_queuing /\ Len(click_queue) < max_queue_size)
  /\ attempts' = attempts + 1
  /\ LET path == ClickPath(x, 5, mouse_button, move, inj)
         ok == path \in {"record_timings", "idle"}
     IN  /\ cpc' = path
         /\ total_time' = IF ok THEN lat ELSE 0
         /\ att' = [outcome |-> IF ok THEN "ok" ELSE "failed",
                    errIncs |-> 0, touched |-> FALSE]
  /\ UNCHANGED <<outsideMetrics, enable_performance_monitoring, performance_metrics,
                 deques, resets, rpc, metrics, log>>

\* line 295
RecordTimings ==
  /\ cpc = "record_timings"
  /\ deques' = [deques EXCEPT ![performance_metrics.click_timings] =
                  DequeAppend(@, total_time)]
  /\ log' = Append(log, total_time)
  /\ att' = [att EXCEPT !.touched = TRUE]
  /\ cpc' = "record_success"
  /\ UNCHANGED <<outsideMetrics, enable_performance_monitoring, performance_metrics,
                 resets, total_time, attempts, rpc, metrics>>

\* line 296
RecordSuccess ==
  /\ cpc = "record_success"
  /\ performance_metrics' =
       [performance_metrics EXCEPT !.click_success_count = @ + 1]
  /\ cpc' = "record_total"
  /\ UNCHANGED <<outsideMetrics, enable_performance_monitoring, deques, resets,
                 total_time, attempts, rpc, metrics, att, log>>

\* line 297
RecordTotal ==
  /\ cpc = "record_total"
  /\ performance_metrics' =
       [performance_metrics EXCEPT !.total_click_time = @ + total_time]
  /\ cpc' = "record_min"
  /\ UNCHANGED <<outsideMetrics, enable_performance_monitoring, deques, resets,
                 total_time, attempts, rpc, metrics, att, log>>

\* line 298
RecordMin ==
  /\ cpc = "record_min"
  /\ performance_metrics' =
       [performance_metrics EXCEPT !.min_click_time = Min(@, total_time)]
  /\ cpc' = "record_max"
  /\ UNCHANGED <<outsideMetrics, enable_performance_monitoring, deques, resets,
                 total_time, attempts, rpc, metrics, att, log>>

\* line 299, then the return
RecordMax ==
  /\ cpc = "record_max"
  /\ performance_metrics' =
       [performance_metrics EXCEPT !.max_click_time = Max(@, total_time)]
  /\ cpc' = "idle"
  /\ total_time' = 0
  /\ UNCHANGED <<outsideMetrics, enable_performance_monitoring, deques, resets,
                 attempts, rpc, metrics, att, log>>

\* self.performance_metrics['click_error_count'] += 1 under the monitoring flag
CountError ==
  /\ performance_metrics' =
       IF enable_performance_monitoring
       THEN [performance_metrics EXCEPT !.click_error_count = @ + 1]
       ELSE performance_metrics
  /\ att' = IF enable_performance_monitoring
            THEN [att EXCEPT !.errIncs = @ + 1] ELSE att

\* lines 301-304: count, then raise SafetyError, which line 310 catches
ExceptFailSafe ==
  /\ cpc = "except_failsafe"
  /\ CountError
  /\ cpc' = "except_custom"
  /\ UNCHANGED <<outsideMetrics, enable_performance_monitoring, deques, resets,
                 total_time, attempts, rpc, metrics, log>>

\* lines 305-308: count, then raise ClickEngineError, which line 310 catches
ExceptPyAutoGUI ==
  /\ cpc = "except_pyautogui"
  /\ CountError
  /\ cpc' = "except_custom"
  /\ UNCHANGED <<outsideMetrics, enable_performance_monitoring, deques, resets,
                 total_time, attempts, rpc, metrics, log>>

\* lines 310-315: count, then re-raise to the caller
ExceptCustom ==
  /\ cpc = "except_custom"
  /\ CountError
  /\ cpc' = "idle"
  /\ UNCHANGED <<outsideMetrics, enable_performance_monitoring, deques, resets,
                 total_time, attempts, rpc, metrics, log>>

\* lines 316-321: count, then raise ClickEngineError to the caller
ExceptUnexpected ==
  /\ cpc = "except_unexpected"
  /\ CountError
  /\ cpc' = "idle"
  /\ UNCHANGED <<outsideMetrics, enable_performance_monitoring, deques, resets,
                 total_time, attempts, rpc, metrics, log>>

\* lines 119-131: a new dictionary with a new, empty deque
reset_performance_metrics ==
  /\ rpc = "idle"
  /\ resets < MaxResets
  /\ resets' = resets + 1
  /\ performance_metrics' = NewMetrics(resets + 1)
  /\ log' = <<>>
  /\ UNCHANGED <<outsideMetrics, enable_performance_monitoring, deques, cpc,
                 total_time, attempts, rpc, metrics, att>>

\* line 98: the shallow copy; the copy refers to the same deque
GetMetricsCopy ==
  /\ rpc = "idle"
  /\ metrics' = [ click_timings |-> performance_metrics.click_timings,
                  timings_read |-> <<>>,
                  click_success_count |-> performance_metrics.click_success_count,
                  click_error_count |-> performance_metrics.click_error_count,
                  total_click_time |-> performance_metrics.total_click_time ]
  /\ rpc' = "copied"
  /\ UNCHANGED <<outsideMetrics, enable_performance_monitoring, performance_metrics,
                 deques, resets, cpc, total_time, attempts, att, log>>

\* lines 107-117: the statistics read the deque the copy refers to
GetMetricsTimings ==
  /\ rpc = "copied"
  /\ metrics' = [metrics EXCEPT !.timings_read = deques[metrics.click_timings]]
  /\ rpc' = "idle"
  /\ UNCHANGED <<outsideMetrics, enable_performance_monitoring, performance_metrics,
                 deques, resets, cpc, total_time, attempts, att, log>>

MetricsNext ==
  \/ \E x \in ClickXs, b \in MouseButtons, move \in MoveOutcomes,
        inj \in InjectorOutcomes, lat \in Latencies :
       PerformClickEnter(x, b, move, inj, lat)
  \/ RecordTimings
  \/ RecordSuccess
  \/ RecordTotal
  \/ RecordMin
  \/ RecordMax
  \/ ExceptFailSafe
  \/ ExceptPyAutoGUI
  \/ ExceptCustom
  \/ ExceptUnexpected
  \/ reset_performance_metrics
  \/ GetMetricsCopy
  \/ GetMetricsTimings

MetricsSpec == MetricsInit /\ [][MetricsNext]_vars

\* ============================================================ functions alone
\* WaitSpec calls _wait_with_variation on its own with an interval the
\* settings allow (1 ms or more) and any variation.
Intervals == 1..MaxInterval
Variations == 0..MaxVariation

WaitInit ==
  /\ SchedInit /\ MonitorInit(FALSE) /\ NoStoreInit /\ NoPickerInit /\ WindowInit
  /\ call \in {[fn |-> "_wait_with_variation", interval |-> i, variation |-> v] :
                 i \in Intervals, v \in Variations}
  /\ result = NoResult

\* lines 323-332
wait_with_variation ==
  /\ call.fn = "_wait_with_variation"
  /\ result = NoResult
  /\ \E r \in (0 - call.variation)..call.variation :
       result' = [ fn |-> call.fn,
                   actual_interval |->
                     ActualInterval(call.interval, call.variation, r),
                   wait_time |-> WaitTimeMs(call.interval, call.variation, r) ]
  /\ UNCHANGED <<outsidePure, call>>

WaitSpec == WaitInit /\ [][wait_with_variation]_vars

\* ------------------------------------------------------------ sanitize_input
\* Python values.  A number is a float record: finite (in tenths, so that
\* 1.5 is 15), inf, -inf or nan; int and float values are not told apart.
\* A string is its text without surrounding blanks, and whether blanks
\* surround it.
FinT(t) == [k |-> "fin", tenths |-> t]
Fin(n) == FinT(n * 10)
PosInf == [k |-> "inf"]
NegInf == [k |-> "-inf"]
NaN == [k |-> "nan"]
Num(f) == [t |-> "num", f |-> f]
Str(s) == [t |-> "str", s |-> s, pad |-> FALSE]
Padded(s) == [t |-> "str", s |-> s, pad |-> TRUE]
PyNone == [t |-> "NoneType"]
PyList == [t |-> "list"]
PyDict == [t |-> "dict"]

\* float(text) for the texts that are numbers; every other text is a ValueError
FloatOfText ==
  [ s \in {"5", "500", "-50", "0", "150", "20000", "1.5", "-0.5", "inf",
           "1e999", "nan"} |->
      CASE s = "5" -> Fin(5)
        [] s = "500" -> Fin(500)
        [] s = "-50" -> Fin(0 - 50)
        [] s = "0" -> Fin(0)
        [] s = "150" -> Fin(150)
        [] s = "20000" -> Fin(20000)
        [] s = "1.5" -> FinT(15)
        [] s = "-0.5" -> FinT(0 - 5)
        [] s = "inf" -> PosInf
        [] s = "1e999" -> PosInf
        [] s = "nan" -> NaN ]

\* a < b on floats: false whenever one of them is nan
PyLt(a, b) ==
  IF a.k = "nan" \/ b.k = "nan" THEN FALSE
  ELSE IF a.k = "inf" \/ b.k = "-inf" THEN FALSE
  ELSE IF a.k = "-inf" \/ b.k = "inf" THEN TRUE
  ELSE a.tenths < b.tenths

\* min(a, b) and max(a, b): the first argument unless the second is beyond it
PyMin(a, b) == IF PyLt(b, a) THEN b ELSE a
PyMax(a, b) == IF PyLt(a, b) THEN b ELSE a

\* float(value): the float, or the exception
PyFloat(v) ==
  IF v.t = "num" THEN [exc |-> "none", f |-> v.f]
  ELSE IF v.t = "str"
       THEN IF v.s \in DOMAIN FloatOfText
            THEN [exc |-> "none", f |-> FloatOfText[v.s]]
            ELSE [exc |-> "ValueError", f |-> NaN]
  ELSE [exc |-> "TypeError", f |-> NaN]

\* int(float(value)): truncation towards zero, or the exception
PyIntOfFloat(v) ==
  LET r == PyFloat(v)
  IN  IF r.exc # "none" THEN r
      ELSE IF r.f.k \in {"inf", "-inf"} THEN [exc |-> "OverflowError", f |-> r.f]
      ELSE IF r.f.k = "nan" THEN [exc |-> "ValueError", f |-> r.f]
      ELSE [exc |-> "none",
            f |-> IF r.f.tenths >= 0
                  THEN Fin(r.f.tenths \div 10)
                  ELSE Fin(0 - ((0 - r.f.tenths) \div 10))]

\* str(value) for the values used here
PyStr(v) == IF v.t = "str" THEN v.s ELSE v.t

Keys == {"x_coord", "y_coord", "interval", "interval_unit", "variation",
         "mouse_button", "click_type", "burst_clicks", "burst_pause",
         "max_clicks", "auto_stop_minutes", "presets"}

\* DEFAULT_SETTINGS, lines 16-29
DEFAULT_SETTINGS ==
  [ key \in Keys |->
      CASE key \in {"x_coord", "y_coord"} -> Num(Fin(100))
        [] key = "interval" -> Num(Fin(1000))
        [] key = "interval_unit" -> Str("ms")
        [] key = "variation" -> Num(Fin(0))
        [] key = "mouse_button" -> Str("left")
        [] key = "click_type" -> Str("single")
        [] key = "burst_clicks" -> Num(Fin(1))
        [] key = "burst_pause" -> Num(Fin(1000))
        [] key = "max_clicks" -> Num(Fin(0))
        [] key = "auto_stop_minutes" -> Num(Fin(0))
        [] key = "presets" -> PyDict ]

Returned(v) == [fn |-> "sanitize_input", outcome |-> "returned", value |-> v]
Raised(e) == [fn |-> "sanitize_input", outcome |-> "raised", value |-> Str(e)]

\* the handler of lines 182-184 around a conversion r; v is what the try
\* block returns when r raised nothing
Handled(key, r, v) ==
  IF r.exc \in {"ValueError", "TypeError"} THEN Returned(DEFAULT_SETTINGS[key])
  ELSE IF r.exc # "none" THEN Raised(r.exc)
  ELSE Returned(v)

\* line 163 without the upper bound
ClampCoordinate_no_ceiling(f) == PyMax(Fin(0), f)

\* line 163: max(0, min(..., 10000))
ClampCoordinate(f) == PyMax(Fin(0), PyMin(f, Fin(10000)))

\* lines 151-186
sanitize_input(key, value) ==
  IF value.t = "NoneType" \/ (value.t = "str" /\ value.s = "")
  THEN Returned(DEFAULT_SETTINGS[key])
  ELSE
    LET v == IF value.t = "str" THEN Str(value.s) ELSE value
    IN  IF key \in {"x_coord", "y_coord"}
        THEN LET r == PyIntOfFloat(v)
             IN  Handled(key, r, Num(ClampCoordinate(r.f)))
        ELSE IF key = "interval"
        THEN LET r == PyFloat(v)
             IN  Handled(key, r, Num(PyMax(Fin(1), PyMin(r.f, Fin(60000)))))
        ELSE IF key \in {"variation", "burst_clicks", "max_clicks",
                         "auto_stop_minutes"}
        THEN LET r == PyIntOfFloat(v)
             IN  Handled(key, r, Num(PyMax(Fin(0), r.f)))
        ELSE IF key = "burst_pause"
        THEN LET r == PyFloat(v)
             IN  Handled(key, r, Num(PyMax(Fin(0), PyMin(r.f, Fin(60000)))))
        ELSE IF key = "mouse_button"
        THEN Returned(IF PyStr(v) \notin {"left", "right", "middle"}
                      THEN Str("left") ELSE Str(PyStr(v)))
        ELSE IF key = "click_type"
        THEN Returned(IF PyStr(v) \notin {"single", "double"}
                      THEN Str("single") ELSE Str(PyStr(v)))
        ELSE IF key = "interval_unit"
        THEN Returned(IF PyStr(v) \notin {"ms", "seconds"}
                      THEN Str("ms") ELSE Str(PyStr(v)))
        ELSE Returned(v)

\* SanitizeSpec calls sanitize_input on its own, once for every key and raw
\* value.
RawValues ==
  { PyNone, PyList, Str(""), Padded(""), Str("abc"), Padded("500"),
    Str("-50"), Str("20000"), Str("1.5"), Str("-0.5"), Str("inf"),
    Str("1e999"), Str("nan"), Str("left"), Str("invalid"), Str("double"),
    Str("seconds"), Padded("right"),
    Num(Fin(500)), Num(Fin(0 - 50)), Num(Fin(0)), Num(Fin(150)),
    Num(Fin(2000)), Num(Fin(20000)), Num(Fin(70000)), Num(Fin(2000000)),
    Num(FinT(5)), Num(FinT(15)), Num(PosInf), Num(NegInf), Num(NaN) }

SanitizeInit ==
  /\ SchedInit /\ MonitorInit(FALSE) /\ NoStoreInit /\ NoPickerInit /\ WindowInit
  /\ call \in {[fn |-> "sanitize_input", key |-> k, value |-> v] :
                 k \in Keys, v \in RawValues}
  /\ result = NoResult

SanitizeCall ==
  /\ call.fn = "sanitize_input"
  /\ result = NoResult
  /\ result' = sanitize_input(call.key, call.value)
  /\ UNCHANGED <<outsidePure, call>>

SanitizeSpec == SanitizeInit /\ [][SanitizeCall]_vars

\* ------------------------------------------------- validate_all_settings
\* a <= b on floats
PyLe(a, b) == IF a.k = "nan" \/ b.k = "nan" THEN FALSE ELSE ~PyLt(b, a)

\* f * n for a finite f or an infinity, n > 0
PyMul(f, n) == IF f.k = "fin" THEN FinT(f.tenths * n) ELSE f

\* lines 70-77
validate_coordinate(x, y, screen_width, screen_height) ==
  /\ PyLe(Fin(0), x) /\ PyLe(x, Fin(screen_width))
  /\ PyLe(Fin(0), y) /\ PyLe(y, Fin(screen_height))

\* lines 79-94; 0.001 <= interval is 0 < interval for a multiple of 0.1
validate_interval(interval, unit) ==
  IF unit \notin {"ms", "seconds"} THEN FALSE
  ELSE IF unit = "ms" THEN PyLe(Fin(1), interval) /\ PyLe(interval, Fin(60000))
  ELSE PyLt(Fin(0), interval) /\ PyLe(interval, Fin(60))

\* lines 96-105
validate_clicks(clicks) ==
  ~PyLt(clicks, Fin(0)) /\ ~PyLt(Fin(1000000), clicks)

\* lines 107-116
validate_minutes(minutes) ==
  ~PyLt(minutes, Fin(0)) /\ ~PyLt(Fin(1440), minutes)

\* lines 124-125
IntervalMs(interval, unit) ==
  IF unit = "ms" THEN interval ELSE PyMul(interval, 1000)

\* validate_variation accepting a variation equal to the interval
validate_variation_inclusive(variation, interval, unit) ==
  /\ ~PyLt(variation, Fin(0))
  /\ ~PyLt(IntervalMs(interval, unit), variation)

\* lines 118-132
validate_variation(variation, interval, unit) ==
  /\ ~PyLt(variation, Fin(0))
  /\ ~PyLe(IntervalMs(interval, unit), variation)

\* lines 134-149
validate_burst_settings(burst_clicks, burst_pause) ==
  /\ ~PyLt(burst_clicks, Fin(1)) /\ ~PyLt(Fin(100), burst_clicks)
  /\ ~PyLt(burst_pause, Fin(0)) /\ ~PyLt(Fin(60000), burst_pause)

\* dict.get(key, default)
Get(d, key, default) == IF key \in DOMAIN d THEN d[key] ELSE default

\* lines 199-235: the fields with an error, from the sanitized values s
ValidationErrors(s, screen_width, screen_height) ==
  LET x_coord == Get(s, "x_coord", Num(Fin(100))).f
      y_coord == Get(s, "y_coord", Num(Fin(100))).f
      interval == Get(s, "interval", Num(Fin(1000))).f
      unit == Get(s, "interval_unit", Str("ms")).s
      variation == Get(s, "variation", Num(Fin(0))).f
      burst_clicks == Get(s, "burst_clicks", Num(Fin(1))).f
      burst_pause == Get(s, "burst_pause", Num(Fin(1000))).f
      max_clicks == Get(s, "max_clicks", Num(Fin(0))).f
      auto_stop == Get(s, "auto_stop_minutes", Num(Fin(0))).f
  IN  (IF validate_coordinate(x_coord, y_coord, screen_width, screen_height)
       THEN {} ELSE {"coordinates"})
      \cup (IF validate_interval(interval, unit) THEN {} ELSE {"interval"})
      \cup (IF validate_variation(variation, interval, unit)
            THEN {} ELSE {"variation"})
      \cup (IF validate_burst_settings(burst_clicks, burst_pause)
            THEN {} ELSE {"burst"})
      \cup (IF validate_clicks(max_clicks) THEN {} ELSE {"max_clicks"})
      \cup (IF validate_minutes(auto_stop) THEN {} ELSE {"auto_stop"})

\* validate_all_settings validating a raw number as it came in
validate_all_settings_raw_numbers(settings, screen_width, screen_height) ==
  LET san == [k \in DOMAIN settings |-> sanitize_input(k, settings[k])]
  IN  IF \E k \in DOMAIN settings : san[k].outcome = "raised"
      THEN [outcome |-> "raised"]
      ELSE LET sanitized_settings == [k \in DOMAIN settings |-> san[k].value]
               checked == [k \in DOMAIN settings |->
                             IF settings[k].t = "num" THEN settings[k]
                             ELSE sanitized_settings[k]]
               errors == ValidationErrors(checked, screen_width, screen_height)
           IN  [ outcome |-> "returned",
                 valid |-> errors = {},
                 errors |-> errors,
                 sanitized_settings |-> sanitized_settings ]

\* lines 188-241: sanitize every field, then validate the sanitized values;
\* an exception of sanitize_input leaves the function
validate_all_settings(settings, screen_width, screen_height) ==
  LET san == [k \in DOMAIN settings |-> sanitize_input(k, settings[k])]
  IN  IF \E k \in DOMAIN settings : san[k].outcome = "raised"
      THEN [outcome |-> "raised"]
      ELSE LET sanitized_settings == [k \in DOMAIN settings |-> san[k].value]
               errors == ValidationErrors(sanitized_settings,
                                          screen_width, screen_height)
           IN  [ outcome |-> "returned",
                 valid |-> errors = {},
                 errors |-> errors,
                 sanitized_settings |-> sanitized_settings ]

\* ------------------------------------------ AutoclickerApp.start_clicking
\* StartSpec calls the window's start_clicking on its own, once for every
\* content of the entry fields.  An entry field holds a text.
IntervalTexts == {"5", "500", "0", "1.5", "abc", "inf", ""}
UnitTexts == {"ms", "seconds", "invalid"}
VariationTexts == {"0", "5", "150", "500", "-50", "1.5", "inf", "abc"}
CoordTexts == {"5", "20000", "-50"}
BurstTexts == {"5", "0", "150"}

RawSettings ==
  { [ x_coord |-> Str(x), y_coord |-> Str("5"), interval |-> Str(i),
      interval_unit |-> Str(u), variation |-> Str(v),
      mouse_button |-> Str("left"), click_type |-> Str("single"),
      burst_clicks |-> Str(b), burst_pause |-> Str("500"),
      max_clicks |-> Str("0"), auto_stop_minutes |-> Str("0") ] :
      x \in CoordTexts, i \in IntervalTexts, u \in UnitTexts,
      v \in VariationTexts, b \in BurstTexts }

\* ValidateSpec calls validate_all_settings on its own: on every content of
\* the entry fields, and on mappings of numbers that leave keys out.
NumberSettings ==
  { [ x_coord |-> Num(Fin(x)), y_coord |-> Num(Fin(5)), interval |-> Num(i),
      interval_unit |-> Str(u), variation |-> Num(Fin(v)),
      max_clicks |-> Num(Fin(m)) ] :
      x \in {5, 20000}, i \in {Fin(500), Fin(70000), FinT(5)},
      u \in {"ms", "seconds"}, v \in {0, 500, 2000}, m \in {0, 2000000} }

ValidateInit ==
  /\ SchedInit /\ MonitorInit(FALSE) /\ NoStoreInit /\ NoPickerInit /\ WindowInit
  /\ call \in {[fn |-> "validate_all_settings", settings |-> r] :
                 r \in RawSettings \cup NumberSettings}
  /\ result = NoResult

ValidateCall ==
  /\ call.fn = "validate_all_settings"
  /\ result = NoResult
  /\ result' = [fn |-> call.fn] @@
                 validate_all_settings(call.settings, ScreenWidth, ScreenHeight)
  /\ UNCHANGED <<outsidePure, call>>

ValidateSpec == ValidateInit /\ [][ValidateCall]_vars

StartInit ==
  /\ SchedInit /\ MonitorInit(FALSE) /\ NoStoreInit /\ NoPickerInit /\ WindowInit
  /\ call \in {[fn |-> "start_clicking", raw_settings |-> r] : r \in RawSettings}
  /\ result = NoResult

\* main_window.py lines 415-493.  result.handed is what is passed to
\* ClickEngine.start_clicking at line 470.
gui_start_clicking ==
  /\ call.fn = "start_clicking"
  /\ result = NoResult
  /\ LET validation_result ==
           validate_all_settings(call.raw_settings, ScreenWidth, ScreenHeight)
     IN  result' =
           IF validation_result.outcome = "raised"
           THEN [fn |-> call.fn, outcome |-> "Unexpected Error", started |-> FALSE]
           ELSE IF ~validation_result.valid
           THEN [fn |-> call.fn, outcome |-> "Validation Error",
                 started |-> FALSE, valid |-> FALSE]
           ELSE LET sanitized == validation_result.sanitized_settings
                IN  [ fn |-> call.fn, outcome |-> "start",
                      started |-> TRUE, valid |-> TRUE,
                      handed |->
                        [ x |-> sanitized.x_coord.f,
                          y |-> sanitized.y_coord.f,
                          interval |-> IF sanitized.interval_unit.s = "seconds"
                                       THEN PyMul(sanitized.interval.f, 1000)
                                       ELSE sanitized.interval.f,
                          variation |-> sanitized.variation.f,
                          burst_clicks |-> sanitized.burst_clicks.f,
                          max_clicks |-> sanitized.max_clicks.f,
                          auto_stop_minutes |-> sanitized.auto_stop_minutes.f ] ]
  /\ UNCHANGED <<outsidePure, call>>

StartSpec == StartInit /\ [][gui_start_clicking]_vars

\* ============================================ SettingsManager, PresetManager
\* StoreSpec follows _settings stores and their preset managers.  The calling
\* code is single threaded, so every operation is one step.  The class
\* attribute DEFAULT_SETTINGS holds one dict object for 'presets'; copy()
\* and {**a, **b} are shallow, so a store's 'presets' is a reference to a
\* dict object: heap[0] is the one of DEFAULT_SETTINGS.
Stores == {"s1", "s2"}
Files == {"f1", "f2"}
Names == {"Home", "Work"}
Coords == {<<640, 480>>, <<100, 200>>}

\* the presets given to save_preset
NewPresets == {<<"Home", <<640, 480>>>>, <<"Home", <<100, 200>>>>,
               <<"Work", <<100, 200>>>>}

\* a name without a preset
NoPreset == <<>>
NoPresets == [n \in Names |-> NoPreset]

\* the keys of a store: the documented ones and one the store does not know
AllKeys == Keys \cup {"theme"}
Absent == [t |-> "absent"]
Ref(id) == [t |-> "dict", ref |-> id]
PyTuple(items) == [t |-> "tuple", items |-> items]
PyListOf(items) == [t |-> "list", items |-> items]
ObjIds == 0..MaxOps

\* DEFAULT_SETTINGS.copy(), lines 46 and 249
DefaultsCopy ==
  [ k \in AllKeys |->
      IF k = "presets" THEN Ref(0)
      ELSE IF k \in Keys THEN DEFAULT_SETTINGS[k] ELSE Absent ]

\* a value with the dict it refers to, as get and get_all show it
Value(v, h) == IF v.t = "dict" THEN [t |-> "dict", items |-> h[v.ref]] ELSE v

\* json.dump of one value (line 52): a tuple is written as an array
JsonDump(v, h) ==
  CASE v.t = "num" -> [j |-> "number", f |-> v.f]
    [] v.t = "str" -> [j |-> "string", s |-> v.s, pad |-> v.pad]
    [] v.t \in {"tuple", "list"} -> [j |-> "array", items |-> v.items]
    [] v.t = "dict" -> [j |-> "object", members |-> h[v.ref]]
    [] v.t = "NoneType" -> [j |-> "null"]
    [] OTHER -> [j |-> "absent"]

\* json.load of one value (line 40): an array is read as a list, an object
\* as the new dict object id
JsonLoad(j, id) ==
  CASE j.j = "number" -> Num(j.f)
    [] j.j = "string" -> [t |-> "str", s |-> j.s, pad |-> j.pad]
    [] j.j = "array" -> PyListOf(j.items)
    [] j.j = "object" -> Ref(id)
    [] j.j = "null" -> PyNone
    [] OTHER -> Absent

\* what a settings file can be
Missing == [kind |-> "missing"]
Truncated == [kind |-> "truncated"]
NotAnObject == [kind |-> "not_an_object"]
Content(c) == [kind |-> "object", members |-> c]
NoMembers == [k \in AllKeys |-> [j |-> "absent"]]

\* the files a store can find when the program starts
InitialFiles ==
  { Missing, Truncated, NotAnObject,
    Content([NoMembers EXCEPT !["x_coord"] = [j |-> "number", f |-> Fin(500)],
                              !["theme"] = [j |-> "string", s |-> "dark",
                                            pad |-> FALSE],
                              !["presets"] =
               [j |-> "object",
                members |-> [NoPresets EXCEPT !["Home"] = <<640, 480>>]]]) }

Unset == [t |-> "unset"]

StoreInit ==
  /\ SchedInit /\ MonitorInit(FALSE) /\ NoCallInit /\ NoPickerInit /\ WindowInit
  /\ files \in {[f \in Files |-> IF f = "f1" THEN c ELSE Missing] :
                  c \in InitialFiles}
  /\ heap = [id \in ObjIds |-> NoPresets]
  /\ nObjs = 1
  /\ opened = [s \in Stores |-> FALSE]
  /\ settings_file = [s \in Stores |-> "f1"]
  /\ _settings = [s \in Stores |-> DefaultsCopy]
  /\ ops = 0
  /\ failures = 0
  /\ explicit = [s \in Stores |-> [k \in AllKeys |-> Unset]]
  /\ lastSaved = [f \in Files |-> [ok |-> FALSE, explicit |-> [k \in AllKeys |-> Unset]]]
  /\ expected = [s \in Stores |-> NoPresets]
  /\ savedHere = [s \in Stores |-> {}]

\* a read or a write of a file fails at most MaxFailures times
Io(io) ==
  /\ io # "ok" => failures < MaxFailures
  /\ failures' = IF io = "ok" THEN failures ELSE failures + 1

\* the outcomes of reading and of writing a file
ReadOutcomes == {"ok", "IOError"}
WriteOutcomes == {"ok", "open_failed", "write_failed"}

\* _load_settings, lines 35-46: the mapping loaded from file f, or the
\* exception that leaves it
LoadSettings(f, io) ==
  LET file == files[f]
  IN  IF file.kind = "missing" THEN [exc |-> "none", settings |-> DefaultsCopy]
      ELSE IF io = "IOError" THEN [exc |-> "none", settings |-> DefaultsCopy]
      ELSE IF file.kind = "truncated"
      THEN [exc |-> "none", settings |-> DefaultsCopy]
      ELSE IF file.kind = "not_an_object"
      THEN [exc |-> "TypeError", settings |-> DefaultsCopy]
      ELSE [exc |-> "none",
            settings |->
              [k \in AllKeys |->
                 IF file.members[k].j = "absent" THEN DefaultsCopy[k]
                 ELSE JsonLoad(file.members[k], nObjs)]]

\* SettingsManager(settings_file), lines 31-33.  The stores are constructed
\* in the order s1, s2, the first one on f1; a file that does not exist is
\* not read.
Open(s, f, io) ==
  /\ ops < MaxOps
  /\ ~opened[s]
  /\ s = "s1" => f = "f1"
  /\ s = "s2" => opened["s1"]
  /\ files[f].kind = "missing" => io = "ok"
  /\ ops' = ops + 1
  /\ Io(io)
  /\ LET loaded == LoadSettings(f, io)
         fresh == /\ loaded.exc = "none"
                  /\ loaded.settings["presets"] = Ref(nObjs)
     IN  /\ call' = [fn |-> "open", store |-> s, file |-> f, io |-> io]
         /\ result' = [fn |-> "open", exc |-> loaded.exc, ret |-> "None"]
         /\ IF loaded.exc # "none"
            THEN UNCHANGED <<opened, settings_file, _settings, heap, nObjs,
                             expected>>
            ELSE /\ opened' = [opened EXCEPT ![s] = TRUE]
                 /\ settings_file' = [settings_file EXCEPT ![s] = f]
                 /\ _settings' = [_settings EXCEPT ![s] = loaded.settings]
                 /\ heap' = IF fresh
                            THEN [heap EXCEPT ![nObjs] =
                                    files[f].members["presets"].members]
                            ELSE heap
                 /\ nObjs' = IF fresh THEN nObjs + 1 ELSE nObjs
                 /\ expected' = [expected EXCEPT ![s] =
                                   IF fresh THEN heap'[nObjs] ELSE NoPresets]
  /\ UNCHANGED <<files, explicit, lastSaved, savedHere>>
  /\ UNCHANGED outsideStore

\* _save_settings writing the documented keys only
SaveSettings_documented_keys(s, newSettings, newHeap, io) ==
  LET f == settings_file[s]
  IN  IF io = "ok"
      THEN [files EXCEPT ![f] =
              Content([k \in AllKeys |->
                         IF k \in Keys THEN JsonDump(newSettings[k], newHeap)
                         ELSE [j |-> "absent"]])]
      ELSE IF io = "open_failed" THEN files
      ELSE [files EXCEPT ![f] = Truncated]

\* _save_settings, lines 48-54: the files after the store wrote newSettings.
\* open(..., 'w') fails and leaves the file, or empties it and the write
\* fails, or the whole mapping is written; IOError is caught.
SaveSettings(s, newSettings, newHeap, io) ==
  LET f == settings_file[s]
  IN  IF io = "ok"
      THEN [files EXCEPT ![f] =
              Content([k \in AllKeys |-> JsonDump(newSettings[k], newHeap)])]
      ELSE IF io = "open_failed" THEN files
      ELSE [files EXCEPT ![f] = Truncated]

\* the end of every operation that writes: the new mapping and dict objects
\* of the store, the file, and what was asked of the store so far
Write(s, newSettings, newHeap, newExplicit, io) ==
  /\ _settings' = [_settings EXCEPT ![s] = newSettings]
  /\ heap' = newHeap
  /\ files' = SaveSettings(s, newSettings, newHeap, io)
  /\ explicit' = [explicit EXCEPT ![s] = newExplicit]
  /\ lastSaved' = [lastSaved EXCEPT ![settings_file[s]] =
                     [ok |-> io = "ok", explicit |-> newExplicit]]
  /\ Io(io)
  /\ UNCHANGED <<opened, settings_file, nObjs>>
  /\ UNCHANGED outsideStore

Step(s) == opened[s] /\ ops < MaxOps /\ ops' = ops + 1

\* the values given to set and update
SetValues ==
  [ x_coord |-> {Num(Fin(500))},
    theme |-> {PyTuple(<<3, 4>>)} ]

\* set assigning the value only when the file was written
set_only_if_saved(s, key, value, io) ==
  /\ Step(s)
  /\ call' = [fn |-> "set", store |-> s, key |-> key, value |-> value, io |-> io]
  /\ result' = [fn |-> "set", exc |-> "none", ret |-> "None"]
  /\ Write(s, IF io = "ok" THEN [_settings[s] EXCEPT ![key] = value]
              ELSE _settings[s],
           heap, [explicit[s] EXCEPT ![key] = Value(value, heap)], io)
  /\ UNCHANGED <<expected, savedHere>>

\* set, lines 60-63
set(s, key, value, io) ==
  /\ Step(s)
  /\ call' = [fn |-> "set", store |-> s, key |-> key, value |-> value, io |-> io]
  /\ result' = [fn |-> "set", exc |-> "none", ret |-> "None"]
  /\ Write(s, [_settings[s] EXCEPT ![key] = value], heap,
           [explicit[s] EXCEPT ![key] = Value(value, heap)], io)
  /\ UNCHANGED <<expected, savedHere>>

\* the mappings given to update; Absent marks a key the mapping leaves out
NoUpdate == [k \in AllKeys |-> Absent]
UpdateMappings ==
  { [NoUpdate EXCEPT !["x_coord"] = Num(Fin(5)), !["theme"] = Str("dark")] }

\* update, lines 65-68
update(s, settings_dict, io) ==
  /\ Step(s)
  /\ call' = [fn |-> "update", store |-> s, settings_dict |-> settings_dict,
              io |-> io]
  /\ result' = [fn |-> "update", exc |-> "none", ret |-> "None"]
  /\ Write(s,
           [k \in AllKeys |-> IF settings_dict[k] = Absent THEN _settings[s][k]
                              ELSE settings_dict[k]],
           heap,
           [k \in AllKeys |-> IF settings_dict[k] = Absent THEN explicit[s][k]
                              ELSE Value(settings_dict[k], heap)],
           io)
  /\ UNCHANGED <<expected, savedHere>>

\* reset_to_defaults, lines 247-250
reset_to_defaults(s, io) ==
  /\ Step(s)
  /\ call' = [fn |-> "reset_to_defaults", store |-> s, io |-> io]
  /\ result' = [fn |-> "reset_to_defaults", exc |-> "none", ret |-> "None"]
  /\ Write(s, DefaultsCopy, heap, [k \in AllKeys |-> Unset], io)
  /\ expected' = [expected EXCEPT ![s] = NoPresets]
  /\ savedHere' = [savedHere EXCEPT ![s] = {}]

\* get, lines 56-58
get(s, key, default) ==
  IF _settings[s][key] = Absent THEN default ELSE _settings[s][key]

\* get_all, lines 243-245, with the dicts its values refer to
get_all(s) == [k \in AllKeys |-> Value(_settings[s][k], heap)]

\* the dict object self.settings.get('presets', {}) returns
Presets(s) == get(s, "presets", Ref(0)).ref

\* PresetManager.save_preset, coordinate_picker.py lines 96-105
save_preset(s, name, xy, io) ==
  /\ Step(s)
  /\ call' = [fn |-> "save_preset", store |-> s, name |-> name, xy |-> xy,
              io |-> io]
  /\ result' = [fn |-> "save_preset", exc |-> "none", ret |-> "True"]
  /\ LET presets == Presets(s)
         newHeap == [heap EXCEPT ![presets][name] = xy]
     IN  Write(s, [_settings[s] EXCEPT !["presets"] = Ref(presets)], newHeap,
               [explicit[s] EXCEPT !["presets"] = Value(Ref(presets), newHeap)],
               io)
  /\ expected' = [expected EXCEPT ![s][name] = xy]
  /\ savedHere' = [savedHere EXCEPT ![s] = @ \cup {name}]

\* PresetManager.load_preset, lines 107-117: the pair, or NoPreset for None
load_preset(s, name) == heap[Presets(s)][name]

\* PresetManager.get_preset_names, lines 119-122
get_preset_names(s) == {n \in Names : heap[Presets(s)][n] # NoPreset}

\* delete_preset emptying the dict
delete_preset_clear(s, name, io) ==
  /\ Step(s)
  /\ call' = [fn |-> "delete_preset", store |-> s, name |-> name, io |-> io]
  /\ LET presets == Presets(s)
     IN  IF heap[presets][name] # NoPreset
         THEN /\ result' = [fn |-> "delete_preset", exc |-> "none",
                            ret |-> "True"]
              /\ LET newHeap == [heap EXCEPT ![presets] = NoPresets]
                 IN  Write(s, [_settings[s] EXCEPT !["presets"] = Ref(presets)],
                           newHeap,
                           [explicit[s] EXCEPT !["presets"] =
                              Value(Ref(presets), newHeap)],
                           io)
              /\ expected' = [expected EXCEPT ![s][name] = NoPreset]
              /\ savedHere' = [savedHere EXCEPT ![s] = @ \ {name}]
         ELSE /\ io = "ok"
              /\ result' = [fn |-> "delete_preset", exc |-> "none",
                            ret |-> "False"]
              /\ UNCHANGED <<files, heap, nObjs, opened, settings_file,
                             _settings, failures, explicit, lastSaved,
                             expected, savedHere>>
              /\ UNCHANGED outsideStore

\* PresetManager.delete_preset, lines 124-135; nothing is written when the
\* name is not stored
delete_preset(s, name, io) ==
  /\ Step(s)
  /\ call' = [fn |-> "delete_preset", store |-> s, name |-> name, io |-> io]
  /\ LET presets == Presets(s)
     IN  IF heap[presets][name] # NoPreset
         THEN /\ result' = [fn |-> "delete_preset", exc |-> "none",
                            ret |-> "True"]
              /\ LET newHeap == [heap EXCEPT ![presets][name] = NoPreset]
                 IN  Write(s, [_settings[s] EXCEPT !["presets"] = Ref(presets)],
                           newHeap,
                           [explicit[s] EXCEPT !["presets"] =
                              Value(Ref(presets), newHeap)],
                           io)
              /\ expected' = [expected EXCEPT ![s][name] = NoPreset]
              /\ savedHere' = [savedHere EXCEPT ![s] = @ \ {name}]
         ELSE /\ io = "ok"
              /\ result' = [fn |-> "delete_preset", exc |-> "none",
                            ret |-> "False"]
              /\ UNCHANGED <<files, heap, nObjs, opened, settings_file,
                             _settings, failures, explicit, lastSaved,
                             expected, savedHere>>
              /\ UNCHANGED outsideStore

StoreNext ==
  \/ \E s \in Stores, f \in Files, io \in ReadOutcomes : Open(s, f, io)
  \/ \E s \in Stores, key \in DOMAIN SetValues, io \in WriteOutcomes :
       \E value \in SetValues[key] : set(s, key, value, io)
  \/ \E s \in Stores, d \in UpdateMappings, io \in WriteOutcomes :
       update(s, d, io)
  \/ \E s \in Stores, io \in WriteOutcomes : reset_to_defaults(s, io)
  \/ \E s \in Stores, p \in NewPresets, io \in WriteOutcomes :
       save_preset(s, p[1], p[2], io)
  \/ \E s \in Stores, n \in Names, io \in WriteOutcomes :
       delete_preset(s, n, io)

StoreSpec == StoreInit /\ [][StoreNext]_vars

\* ============================================================ CoordinatePicker
\* PickerSpec follows one CoordinatePicker.  The window's thread ("gui")
\* calls start_picking and stop_picking; the mouse listener's thread
\* ("mouse") runs the handlers of a button press, one after the other.  A
\* thread's position is the line of coordinate_picker.py it is about to run.
PickerThreads == {"gui", "mouse"}

\* the callables start_picking is given; on_cancelled is optional
SelectedCallbacks == {"on_selected_1", "on_selected_2"}
CancelledCallbacks == {"None", "on_cancelled_1", "on_cancelled_2"}

\* CoordinatePicker.__init__, lines 14-17
PickerInit ==
  /\ SchedInit /\ MonitorInit(FALSE) /\ NoCallInit /\ NoStoreInit /\ WindowInit
  /\ is_active = FALSE
  /\ on_coordinate_selected = "None"
  /\ on_cancelled = "None"
  /\ hooks = 0
  /\ ppc = [th \in PickerThreads |-> "idle"]
  /\ retTo = [th \in PickerThreads |-> "idle"]
  /\ pending = 0
  /\ picks = 0
  /\ presses = 0
  /\ sessions = 0
  /\ sessionCancel = "None"
  /\ selectedCalls = 0
  /\ cancelledCalls = 0

\* start_picking registering the callbacks before it looks at is_active
start_picking_register_first(on_selected, cancelled, on_button) ==
  /\ ppc["gui"] = "idle"
  /\ picks < MaxPicks
  /\ picks' = picks + 1
  /\ call' = [fn |-> "start_picking", on_selected |-> on_selected,
              on_cancelled |-> cancelled]
  /\ on_coordinate_selected' = on_selected
  /\ on_cancelled' = cancelled
  /\ IF is_active
     THEN /\ result' = [fn |-> "start_picking", ret |-> FALSE]
          /\ UNCHANGED <<is_active, hooks, sessions, sessionCancel,
                         selectedCalls, cancelledCalls>>
     ELSE IF on_button = "ok"
          THEN /\ is_active' = TRUE
               /\ hooks' = hooks + 1
               /\ sessions' = sessions + 1
               /\ sessionCancel' = cancelled
               /\ selectedCalls' = 0
               /\ cancelledCalls' = 0
               /\ result' = [fn |-> "start_picking", ret |-> TRUE]
          ELSE /\ is_active' = FALSE
               /\ result' = [fn |-> "start_picking", ret |-> FALSE]
               /\ UNCHANGED <<hooks, sessions, sessionCancel, selectedCalls,
                              cancelledCalls>>
  /\ UNCHANGED <<ppc, retTo, pending, presses>>
  /\ UNCHANGED outsidePicker

\* start_picking, lines 31-45; on_button is how mouse.on_button answers
start_picking(on_selected, cancelled, on_button) ==
  /\ ppc["gui"] = "idle"
  /\ picks < MaxPicks
  /\ picks' = picks + 1
  /\ call' = [fn |-> "start_picking", on_selected |-> on_selected,
              on_cancelled |-> cancelled]
  /\ IF is_active
     THEN /\ result' = [fn |-> "start_picking", ret |-> FALSE]
          /\ UNCHANGED <<is_active, on_coordinate_selected, on_cancelled,
                         hooks, sessions, sessionCancel, selectedCalls,
                         cancelledCalls>>
     ELSE /\ on_coordinate_selected' = on_selected
          /\ on_cancelled' = cancelled
          /\ IF on_button = "ok"
             THEN /\ is_active' = TRUE
                  /\ hooks' = hooks + 1
                  /\ sessions' = sessions + 1
                  /\ sessionCancel' = cancelled
                  /\ selectedCalls' = 0
                  /\ cancelledCalls' = 0
                  /\ result' = [fn |-> "start_picking", ret |-> TRUE]
             ELSE /\ is_active' = FALSE
                  /\ result' = [fn |-> "start_picking", ret |-> FALSE]
                  /\ UNCHANGED <<hooks, sessions, sessionCancel, selectedCalls,
                                 cancelledCalls>>
  /\ UNCHANGED <<ppc, retTo, pending, presses>>
  /\ UNCHANGED outsidePicker

\* stop_picking, lines 47-63, run by thread th: the call by the window's
\* thread, then one statement at a time.  unhook is how mouse.unhook
\* answers: it removes a handler or raises, and what it raises is dropped.
stop_picking(th, unhook) ==
  /\ \/ /\ th = "gui" /\ ppc[th] = "idle" /\ unhook = "removed"
        /\ ppc' = [ppc EXCEPT ![th] = "stop_49"]
        /\ retTo' = [retTo EXCEPT ![th] = "idle"]
        /\ UNCHANGED <<is_active, hooks, cancelledCalls>>
     \/ /\ ppc[th] = "stop_49" /\ unhook = "removed"
        /\ ppc' = [ppc EXCEPT ![th] = IF is_active THEN "stop_52" ELSE retTo[th]]
        /\ UNCHANGED <<is_active, hooks, cancelledCalls, retTo>>
     \/ /\ ppc[th] = "stop_52" /\ unhook = "removed"
        /\ is_active' = FALSE
        /\ ppc' = [ppc EXCEPT ![th] = "stop_56"]
        /\ UNCHANGED <<hooks, cancelledCalls, retTo>>
     \/ /\ ppc[th] = "stop_56"
        /\ unhook = "removed" => hooks > 0
        /\ hooks' = IF unhook = "removed" THEN hooks - 1 ELSE hooks
        /\ ppc' = [ppc EXCEPT ![th] = "stop_62"]
        /\ UNCHANGED <<is_active, cancelledCalls, retTo>>
     \/ /\ ppc[th] = "stop_62" /\ unhook = "removed"
        /\ cancelledCalls' = IF on_cancelled # "None" THEN cancelledCalls + 1
                             ELSE cancelledCalls
        /\ ppc' = [ppc EXCEPT ![th] = retTo[th]]
        /\ UNCHANGED <<is_active, hooks, retTo>>
  /\ UNCHANGED <<on_coordinate_selected, on_cancelled, pending, picks, presses,
                 sessions, sessionCancel, selectedCalls, pureVars>>
  /\ UNCHANGED outsidePicker

\* a press of the primary button: the listener runs each handler it holds
ButtonPress ==
  /\ \/ /\ ppc["mouse"] = "idle" /\ pending = 0
        /\ hooks > 0
        /\ presses < MaxPresses
        /\ presses' = presses + 1
        /\ pending' = hooks
        /\ UNCHANGED ppc
     \/ /\ ppc["mouse"] = "idle" /\ pending > 0
        /\ pending' = pending - 1
        /\ ppc' = [ppc EXCEPT !["mouse"] = "click_67"]
        /\ UNCHANGED presses
  /\ UNCHANGED <<is_active, on_coordinate_selected, on_cancelled, hooks, retTo,
                 picks, sessions, sessionCancel, selectedCalls, cancelledCalls,
                 pureVars>>
  /\ UNCHANGED outsidePicker

\* _on_mouse_click, lines 65-83, in the listener's thread; get_position is
\* how mouse.get_position answers.  The calls of stop_picking at lines 75
\* and 83 continue in stop_picking.
_on_mouse_click(get_position) ==
  /\ \/ /\ ppc["mouse"] = "click_67" /\ get_position = "ok"
        /\ ppc' = [ppc EXCEPT !["mouse"] = IF is_active THEN "click_72" ELSE "idle"]
        /\ UNCHANGED <<retTo, selectedCalls>>
     \/ /\ ppc["mouse"] = "click_72"
        /\ ppc' = [ppc EXCEPT !["mouse"] = "stop_49"]
        /\ retTo' = [retTo EXCEPT !["mouse"] =
                       IF get_position = "ok" THEN "click_78" ELSE "idle"]
        /\ UNCHANGED selectedCalls
     \/ /\ ppc["mouse"] = "click_78" /\ get_position = "ok"
        /\ selectedCalls' = IF on_coordinate_selected # "None"
                            THEN selectedCalls + 1 ELSE selectedCalls
        /\ ppc' = [ppc EXCEPT !["mouse"] = "idle"]
        /\ UNCHANGED retTo
  /\ UNCHANGED <<is_active, on_coordinate_selected, on_cancelled, hooks, pending,
                 picks, presses, sessions, sessionCancel, cancelledCalls,
                 pureVars>>
  /\ UNCHANGED outsidePicker

PickerNext ==
  \/ \E on_selected \in SelectedCallbacks, cancelled \in CancelledCallbacks,
        on_button \in {"ok", "raises"} :
       start_picking(on_selected, cancelled, on_button)
  \/ \E th \in PickerThreads, unhook \in {"removed", "ValueError"} :
       stop_picking(th, unhook)
  \/ ButtonPress
  \/ \E get_position \in {"ok", "raises"} : _on_mouse_click(get_position)

PickerSpec == PickerInit /\ [][PickerNext]_vars

\* ============================================================== AutoclickerApp
\* AppSpec follows the window's handlers that start and stop a run, with the
\* engine they call.  A handler is entered (a button or a hotkey), calls the
\* engine's operation, which is the scheduler's action, and then updates the
\* widgets.  The window always hands the engine its _on_clicking_complete.
AppConfigs == {c \in Configs : c.on_click_complete = "returns"}

\* no completion callback is waiting for its body to run
NoCallbackPending == \A t \in Threads : completeCalls[t] = seen[t]

\* a handler is entered: main_window.py lines 415, 495, 503
AppEnter(handler) ==
  /\ apc = "idle"
  /\ caller = "idle"
  /\ calls < MaxCalls
  /\ apc' = handler
  /\ acalls' = calls
  /\ UNCHANGED <<status_var, click_count_var, status_timer, seen>>
  /\ UNCHANGED <<schedVars, outsideApp>>

\* the engine's operation has returned to the handler
AppReturned(handler) == apc = handler /\ calls = acalls + 1 /\ caller = "idle"

\* start_clicking, lines 470-484: the call of the engine, then the widgets
app_start_clicking ==
  \/ AppEnter("start_clicking")
  \/ /\ apc = "start_clicking" /\ calls = acalls
     /\ \E a \in AppConfigs : start_clicking(a)
  \/ /\ AppReturned("start_clicking")
     /\ apc' = "idle"
     /\ IF ret = "True"
        THEN status_var' = "Running..." /\ status_timer' = "scheduled"
        ELSE UNCHANGED <<status_var, status_timer>>
     /\ UNCHANGED <<click_count_var, acalls, seen>>
     /\ UNCHANGED <<schedVars, outsideApp>>

\* stop_clicking, lines 495-501
app_stop_clicking ==
  \/ AppEnter("stop_clicking")
  \/ /\ apc = "stop_clicking" /\ calls = acalls
     /\ stop_clicking
  \/ /\ apc = "stop_clicking"
     /\ StopJoinThread
  \/ /\ AppReturned("stop_clicking")
     /\ apc' = "idle"
     /\ status_var' = "Stopped"
     /\ status_timer' = "none"
     /\ UNCHANGED <<click_count_var, acalls, seen>>
     /\ UNCHANGED <<schedVars, outsideApp>>

\* emergency_stop, lines 503-509
app_emergency_stop ==
  \/ AppEnter("emergency_stop")
  \/ /\ apc = "emergency_stop" /\ calls = acalls
     /\ emergency_stop
  \/ /\ AppReturned("emergency_stop")
     /\ apc' = "idle"
     /\ status_var' = "Emergency Stop"
     /\ status_timer' = "none"
     /\ UNCHANGED <<click_count_var, acalls, seen>>
     /\ UNCHANGED <<schedVars, outsideApp>>

\* _on_clicking_complete, lines 511-516, called by loop thread t at line
\* 220 or 225 of click_engine.py
_on_clicking_complete(t) ==
  /\ completeCalls[t] > seen[t]
  /\ seen' = [seen EXCEPT ![t] = @ + 1]
  /\ status_var' = "Stopped"
  /\ status_timer' = "none"
  /\ UNCHANGED <<click_count_var, apc, acalls>>
  /\ UNCHANGED <<schedVars, outsideApp>>

\* _update_status_loop and _on_status_update, lines 541-545 and 518-521:
\* the periodic refresh, run by the window's event loop
_update_status_loop ==
  /\ status_timer = "scheduled"
  /\ apc = "idle"
  /\ NoCallbackPending
  /\ IF is_running
     THEN click_count_var' = click_count /\ UNCHANGED status_timer
     ELSE status_timer' = "none" /\ UNCHANGED click_count_var
  /\ UNCHANGED <<status_var, apc, acalls, seen>>
  /\ UNCHANGED <<schedVars, outsideApp>>

\* the loop threads of the engine; a completion callback runs its body
\* before its thread or any other goes on
AppLoop(t) ==
  /\ NoCallbackPending
  /\ \/ LoopWhile(t)
     \/ LoopShouldStop(t)
     \/ BurstFor(t)
     \/ \E inj \in InjectorOutcomes : BurstPerformClick(t, inj)
     \/ BurstCount(t)
     \/ BurstSleepEnd(t)
     \/ LoopIfWait(t)
     \/ WaitSleepEnd(t)
     \/ LoopComplete(t)
     \/ LoopExcept(t)

AppInit ==
  SchedInit /\ MonitorInit(FALSE) /\ NoCallInit /\ NoStoreInit /\ NoPickerInit
    /\ WindowInit

AppNext ==
  \/ NoCallbackPending /\ app_start_clicking
  \/ NoCallbackPending /\ app_stop_clicking
  \/ NoCallbackPending /\ app_emergency_stop
  \/ \E t \in Threads : AppLoop(t)
  \/ \E t \in Threads : _on_clicking_complete(t)
  \/ _update_status_loop
  \/ NoCallbackPending /\ Tick

AppSpec == AppInit /\ [][AppNext]_vars

\* ================================================== validators on any value
\* ValidatorSpec calls validate_clicks, validate_minutes and
\* validate_variation on their own, once for every value of FieldValues.  The
\* functions compare the value with an int: Python orders numbers and raises
\* TypeError for a string, None or a list.  Their try statement catches
\* ValidationError only, so that TypeError leaves the function.
FieldValues ==
  { Num(Fin(0)), Num(Fin(100)), Num(Fin(0 - 1)), Num(Fin(1500)),
    Num(Fin(1000001)), Num(FinT(55)), Num(NaN), Num(PosInf),
    Str("not_a_number"), Str("5"), PyNone, PyList }
FieldIntervals == {Fin(1000), Fin(500), FinT(5)}

ValidatorReturned(ok, reason) ==
  [outcome |-> "returned", ok |-> ok, reason |-> reason]
ValidatorRaised(e) == [outcome |-> "raised", exc |-> e]

\* lines 96-105, the argument being any Python value
validate_clicks_of(clicks) ==
  IF clicks.t # "num" THEN ValidatorRaised("TypeError")
  ELSE IF PyLt(clicks.f, Fin(0))
       THEN ValidatorReturned(FALSE, "Click count cannot be negative")
  ELSE IF PyLt(Fin(1000000), clicks.f)
       THEN ValidatorReturned(FALSE,
              "Click count cannot exceed 1,000,000 to prevent system overload")
  ELSE ValidatorReturned(TRUE, "")

\* lines 107-116, the argument being any Python value
validate_minutes_of(minutes) ==
  IF minutes.t # "num" THEN ValidatorRaised("TypeError")
  ELSE IF PyLt(minutes.f, Fin(0))
       THEN ValidatorReturned(FALSE, "Minutes cannot be negative")
  ELSE IF PyLt(Fin(1440), minutes.f)
       THEN ValidatorReturned(FALSE,
              "Auto-stop time cannot exceed 24 hours (1440 minutes)")
  ELSE ValidatorReturned(TRUE, "")

\* lines 118-132, the variation being any Python value and the interval a
\* number
validate_variation_of(variation, interval, unit) ==
  IF variation.t # "num" THEN ValidatorRaised("TypeError")
  ELSE IF PyLt(variation.f, Fin(0))
       THEN ValidatorReturned(FALSE, "Variation cannot be negative")
  ELSE IF PyLe(IntervalMs(interval, unit), variation.f)
       THEN ValidatorReturned(FALSE,
              "Variation cannot be greater than or equal to interval")
  ELSE ValidatorReturned(TRUE, "")

ValidatorInit ==
  /\ SchedInit /\ MonitorInit(FALSE) /\ NoStoreInit /\ NoPickerInit /\ WindowInit
  /\ call \in {[fn |-> f, value |-> v] :
                 f \in {"validate_clicks", "validate_minutes"},
                 v \in FieldValues}
              \cup {[fn |-> "validate_variation", value |-> v,
                     interval |-> i, unit |-> u] :
                      v \in FieldValues, i \in FieldIntervals,
                      u \in {"ms", "seconds"}}
  /\ result = NoResult

ValidatorCall ==
  /\ call.fn \in {"validate_clicks", "validate_minutes", "validate_variation"}
  /\ result = NoResult
  /\ result' = [fn |-> call.fn] @@
       CASE call.fn = "validate_clicks" -> validate_clicks_of(call.value)
         [] call.fn = "validate_minutes" -> validate_minutes_of(call.value)
         [] call.fn = "validate_variation" ->
              validate_variation_of(call.value, call.interval, call.unit)
  /\ UNCHANGED <<outsidePure, call>>

ValidatorSpec == ValidatorInit /\ [][ValidatorCall]_vars

\* ================================================ create_user_friendly_error
\* ErrorSpec calls create_user_friendly_error on its own, once for every
\* exception of Errors.  An exception is its class, the attributes its
\* constructor sets, the text handed to the constructor, and str(error).
Taxonomy ==
  {"ValidationError", "CoordinateError", "ClickEngineError", "SafetyError",
   "SettingsError", "PresetError", "DependencyError"}
ErrorTypes ==
  Taxonomy \cup {"SystemTrayError", "HotkeyError", "ValueError", "TypeError",
                 "UnicodeDecodeError", "PermissionError", "FileNotFoundError",
                 "OSError", "RuntimeError", "KeyError", "ZeroDivisionError"}
ErrorTexts ==
  {"Out of screen bounds", "Not installed", "Must be positive",
   "pyautogui.click failed at click_engine.py line 279"}

\* the class a class derives from: exceptions.py lines 7-90 and Python's
\* built-in exceptions
BaseOf(type) ==
  CASE type \in Taxonomy \cup {"SystemTrayError", "HotkeyError"} ->
         "AutoclickerError"
    [] type \in {"PermissionError", "FileNotFoundError"} -> "OSError"
    [] type = "UnicodeDecodeError" -> "ValueError"
    [] type = "KeyError" -> "LookupError"
    [] type = "ZeroDivisionError" -> "ArithmeticError"
    [] type = "Exception" -> "BaseException"
    [] OTHER -> "Exception"

RECURSIVE IsInstance(_, _)
IsInstance(type, cls) ==
  IF type = cls THEN TRUE
  ELSE IF type = "BaseException" THEN FALSE
  ELSE IsInstance(BaseOf(type), cls)

\* the attributes the constructors set, lines 9-90
AttributesOf(type) ==
  IF ~IsInstance(type, "AutoclickerError") THEN {"args"}
  ELSE {"args", "message", "details"} \cup
       CASE type = "ValidationError" -> {"field", "value", "reason"}
         [] type = "CoordinateError" -> {"x", "y"}
         [] type = "ClickEngineError" -> {"operation"}
         [] type = "SettingsError" -> {"setting_name"}
         [] type = "SafetyError" -> {"limit_type", "value", "limit"}
         [] type = "SystemTrayError" -> {"operation"}
         [] type = "HotkeyError" -> {"hotkey"}
         [] type = "PresetError" -> {"preset_name", "operation"}
         [] type = "DependencyError" -> {"dependency"}

\* an exception of the class made with the text; str(error) is the message
\* the constructor builds around the text, or the text itself
NewError(type, text) ==
  [ type |-> type, attrs |-> AttributesOf(type), text |-> text,
    str |-> IF IsInstance(type, "AutoclickerError")
            THEN <<type, text>> ELSE <<text>> ]
Errors == {NewError(type, text) : type \in ErrorTypes, text \in ErrorTexts}

FriendlyMessage(template, detail) ==
  [outcome |-> "returned", template |-> template, detail |-> detail]
\* error.reason: the text for a class that stores it, AttributeError otherwise
WithReason(error, template) ==
  IF "reason" \in error.attrs
  THEN FriendlyMessage(template, <<error.text>>)
  ELSE [outcome |-> "raised", exc |-> "AttributeError"]

\* lines 110-127
create_user_friendly_error(error) ==
  IF IsInstance(error.type, "ValidationError")
  THEN WithReason(error, "Please check your input for")
  ELSE IF IsInstance(error.type, "CoordinateError")
  THEN WithReason(error, "Please select valid coordinates:")
  ELSE IF IsInstance(error.type, "SafetyError")
  THEN WithReason(error, "Safety limit reached:")
  ELSE IF IsInstance(error.type, "DependencyError")
  THEN WithReason(error, "Missing or incompatible dependency:")
  ELSE IF IsInstance(error.type, "ValueError")
          \/ IsInstance(error.type, "TypeError")
  THEN FriendlyMessage("Invalid input format. Please check your entries.", <<>>)
  ELSE IF IsInstance(error.type, "PermissionError")
  THEN FriendlyMessage(
         "Permission denied. Please run with appropriate permissions.", <<>>)
  ELSE IF IsInstance(error.type, "OSError")
  THEN FriendlyMessage(
         "System error occurred. Please check your system configuration.", <<>>)
  ELSE FriendlyMessage("An unexpected error occurred:", error.str)

ErrorInit ==
  /\ SchedInit /\ MonitorInit(FALSE) /\ NoStoreInit /\ NoPickerInit /\ WindowInit
  /\ call \in {[fn |-> "create_user_friendly_error", error |-> e] : e \in Errors}
  /\ result = NoResult

ErrorCall ==
  /\ call.fn = "create_user_friendly_error"
  /\ result = NoResult
  /\ result' = [fn |-> call.fn] @@ create_user_friendly_error(call.error)
  /\ UNCHANGED <<outsidePure, call>>

ErrorSpec == ErrorInit /\ [][ErrorCall]_vars

\* ===================================================================== claims
\* A loop thread that is inside its while loop: alive and able to click.
InLoop(t) == pc[t] \in {"while", "should_stop", "for", "perform_click",
                        "enqueue", "count", "burst_sleep", "if_wait",
                        "wait_sleep"}
Exited(t) == pc[t] \in {"complete", "except", "dead"}

\* C1: at any time at most one scheduling loop is alive and able to perform
\* clicks, whatever start_clicking, stop_clicking and emergency_stop calls
\* were made.
C1_AtMostOneLoop == Cardinality({t \in Threads : InLoop(t)}) <= 1

\* C2: a loop started with max_clicks = N > 0 and no time limit that leaves
\* its while loop because of the limit has performed exactly N clicks
\* (click_count = N), for every burst size.
C2_ExactlyMaxClicks ==
  \A t \in Threads :
    ( /\ pc[t] = "complete"
      /\ exitReason[t] = "limit"
      /\ args[t].max_clicks > 0
      /\ args[t].auto_stop_minutes = 0 )
    => click_count = args[t].max_clicks

\* C3: a failed click attempt does not end the run: no loop leaves its while
\* loop because a click raised.
C3_FailedClickKeepsRunning ==
  \A t \in Threads : exitReason[t] # "click_error"

\* C4: when the loop of the latest run has ended because a safety limit was
\* reached, the engine is Idle again: is_running is false.
C4_LimitExitIsIdle ==
  \A t \in Threads :
    (pc[t] = "dead" /\ exitReason[t] = "limit" /\ t = nThreads) => ~is_running

\* C5: the completion callback of a run is never invoked more than once, and
\* it has been invoked exactly once when the run's loop thread has ended.
C5_CompleteExactlyOnce ==
  \A t \in Threads :
    args[t].on_click_complete # "none" =>
      /\ completeCalls[t] <= 1
      /\ pc[t] = "dead" => completeCalls[t] = 1

\* C6: after emergency_stop and until the next successful start_clicking the
\* input injector is invoked at most once more.
C6_AtMostOneInjectionAfterEStop == estopped => injectedAfterEStop <= 1

\* C7: a loop that is inside a sleep while a stop has been requested leaves
\* the sleep within one polling slice, whatever remains of the sleep.
C7_SleepIsCancellable ==
  \A t \in Threads : (Sleeping(t) /\ ~Running) => sleepLeft[t] <= PollSlice

\* C8: start_clicking called while is_running returns False and leaves
\* is_running, click_count, the start time, the stop event, the loop thread
\* reference and every loop thread as they were; no thread is created.
C8_RejectedStartChangesNothing ==
  [][ (is_running /\ \E a \in Configs : start_clicking(a))
      => /\ ret' = "False"
         /\ UNCHANGED <<is_running, click_count, elapsed, stop_event,
                        click_thread, nThreads, pc, args>> ]_vars

\* a start was rejected while a run was active
C8_Witness == ret = "False" /\ is_running /\ nThreads = 1 /\ click_count > 0

\* C9: start_clicking called while Idle resets click_count to 0, records a new
\* start time, clears the stop signal, sets is_running, launches the loop on a
\* new thread and returns True at once; the click_count seen afterwards counts
\* only the clicks of the new run.
C9_StartFromIdle ==
  /\ [][ (~is_running /\ \E a \in Configs : start_clicking(a))
         => /\ ret' = "True"
            /\ click_count' = 0
            /\ elapsed' = 0
            /\ ~stop_event'
            /\ is_running'
            /\ nThreads' = nThreads + 1
            /\ click_thread' = nThreads'
            /\ pc'[nThreads'] = "while" ]_vars
  /\ [](nThreads >= 1 => click_count = runClicks)

\* C10: a loop with auto_stop_minutes = M > 0 that reaches its stop-condition
\* checkpoint once M minutes have elapsed leaves the while loop there,
\* whatever the click count, and never returns to it.
C10_RuntimeLimitStops ==
  [][ \A t \in Threads :
        /\ ( /\ pc[t] = "should_stop"
             /\ args[t].auto_stop_minutes > 0
             /\ elapsed >= args[t].auto_stop_minutes * MsPerMinute
             /\ pc'[t] # "should_stop" )
           => (pc'[t] = "complete" /\ exitReason'[t] = "limit")
        /\ Exited(t) => Exited(t)' ]_vars

\* a loop without click limit left its while loop at the runtime limit
C10_Witness ==
  \E t \in Threads :
    /\ pc[t] = "complete"
    /\ exitReason[t] = "limit"
    /\ args[t].auto_stop_minutes > 0
    /\ args[t].max_clicks = 0
    /\ click_count > 0

RECURSIVE SumSeq(_)
SumSeq(s) == IF s = <<>> THEN 0 ELSE Head(s) + SumSeq(Tail(s))

\* the last n entries of s
LastN(s, n) == IF n >= Len(s) THEN s ELSE SubSeq(s, Len(s) - n + 1, Len(s))

\* C11: a click attempt that failed (coordinate out of bounds, injector
\* failure, fail-safe, unsupported button, unexpected error) has incremented
\* click_error_count exactly once and has written no other metric.
C11_FailedClickCountsOnce ==
  (cpc = "idle" /\ att.outcome = "failed") => (att.errIncs = 1 /\ ~att.touched)

\* C12: between click attempts the latency history is the most recent
\* successful latencies since the last reset, in order, and its length is
\* min(click_success_count, capacity).
C12_HistoryIsRecentSuccesses ==
  cpc = "idle" =>
    LET h == deques[performance_metrics.click_timings]
        n == Min(performance_metrics.click_success_count, TimingsMaxLen)
    IN  Len(h) = n /\ h = LastN(log, n)

\* C13: every snapshot get_performance_metrics returns shows the success
\* count, the latency history and the total latency of the same set of
\* completed clicks.
C13_SnapshotIsConsistent ==
  (rpc = "idle" /\ metrics # NoMetrics) =>
    /\ Len(metrics.timings_read) =
         Min(metrics.click_success_count, TimingsMaxLen)
    /\ metrics.click_success_count <= TimingsMaxLen =>
         metrics.total_click_time = SumSeq(metrics.timings_read)

\* C14: with queuing enabled, a request the queue processor has taken from
\* the queue is executed against the input injector, once; it is never put
\* back, so the queue drains once the loop stops producing.
C14_TakenRequestIsExecuted ==
  [][ \A q \in QThreads :
        qpc[q] = "perform_click" => qpc'[q] # "enqueue" ]_vars

\* C15: under every interleaving of the loop, the queue processor and the
\* enable / stop calls, click_queue never holds more than max_queue_size
\* entries.
C15_QueueBounded == Len(click_queue) <= max_queue_size

\* C16: for every inter-burst wait, with variation = 0 the interval used is
\* exactly the base interval; with variation > 0 the sampled interval lies in
\* [interval - variation, interval + variation], and it is never negative
\* when variation < interval.
C16_WaitWithinVariation ==
  result.fn = "_wait_with_variation" =>
    /\ call.variation = 0 => result.wait_time = call.interval
    /\ call.variation > 0 =>
         /\ call.interval - call.variation <= result.actual_interval
         /\ result.actual_interval <= call.interval + call.variation
    /\ call.variation < call.interval => result.actual_interval >= 0

\* the lowest interval of a legal variation was sampled
C16_Witness ==
  /\ result.fn = "_wait_with_variation"
  /\ call.variation > 0
  /\ call.variation < call.interval
  /\ result.actual_interval = call.interval - call.variation

\* C17: every run started through the window's start_clicking has passed
\* validation: the scheduler is not started when validate_all_settings
\* reports valid = false, and the config handed to it has
\* 0 <= variation < interval in milliseconds.
C17_StartedRunIsValid ==
  (result.fn = "start_clicking" /\ result.started) =>
    /\ validate_all_settings(call.raw_settings, ScreenWidth, ScreenHeight).valid
    /\ PyLe(Fin(0), result.handed.variation)
    /\ PyLt(result.handed.variation, result.handed.interval)

\* a run with a variation was started from an interval given in seconds
C17_Witness ==
  /\ result.fn = "start_clicking"
  /\ result.started
  /\ call.raw_settings.interval_unit = Str("seconds")
  /\ result.handed.variation = Fin(500)
  /\ result.handed.interval = Fin(5000)

NumericKeys == {"x_coord", "y_coord", "interval", "variation", "burst_clicks",
                "burst_pause", "max_clicks", "auto_stop_minutes"}

\* v is a finite number between lo and hi (in units, not tenths)
InRange(v, lo, hi) ==
  v.t = "num" /\ v.f.k = "fin" /\ lo * 10 <= v.f.tenths /\ v.f.tenths <= hi * 10

\* the values the settings allow for a key
Legal(key, v) ==
  CASE key \in {"x_coord", "y_coord"} -> InRange(v, 0, 10000)
    [] key = "interval" -> InRange(v, 1, 60000)
    [] key = "variation" -> v.t = "num" /\ v.f.k = "fin" /\ v.f.tenths >= 0
    [] key = "burst_clicks" -> InRange(v, 1, 100)
    [] key = "burst_pause" -> InRange(v, 0, 60000)
    [] key = "max_clicks" -> InRange(v, 0, 1000000)
    [] key = "auto_stop_minutes" -> InRange(v, 0, 1440)
    [] key = "mouse_button" -> v \in {Str("left"), Str("right"), Str("middle")}
    [] key = "click_type" -> v \in {Str("single"), Str("double")}
    [] key = "interval_unit" -> v \in {Str("ms"), Str("seconds")}
    [] OTHER -> TRUE

\* C18: for every key and every raw value, the value sanitize_input returns
\* is legal for that key.
C18_SanitizedIsLegal ==
  (result.fn = "sanitize_input" /\ result.outcome = "returned")
    => Legal(call.key, result.value)

\* the raw value is a finite number, or the text of one
IsFinite(v) == PyFloat(v).exc = "none" /\ PyFloat(v).f.k = "fin"

\* the raw value is empty, or no number at all
NotANumber(v) ==
  \/ v.t = "NoneType"
  \/ v.t = "str" /\ v.s \notin DOMAIN FloatOfText
  \/ v.t \notin {"NoneType", "str", "num"}

C20_SanitizeNeverRaises ==
  result.fn = "sanitize_input" => result.outcome = "returned"

\* v is a whole number
Integral(v) == v.t = "num" /\ v.f.k = "fin" /\ v.f.tenths % 10 = 0

\* the value is one the key's validation rule accepts as it is
LegalInput(key, v) ==
  CASE key = "interval" ->
         /\ v.t = "num"
         /\ \/ validate_interval(v.f, "ms")
            \/ validate_interval(v.f, "seconds")
    [] key \in {"x_coord", "y_coord", "variation", "burst_clicks",
                "max_clicks", "auto_stop_minutes"} ->
         Integral(v) /\ Legal(key, v)
    [] key \in {"burst_pause", "mouse_button", "click_type",
                "interval_unit"} -> Legal(key, v)
    [] OTHER -> FALSE

\* C21: sanitize_input returns its input unchanged when the input is
\* already legal for the key; in particular every interval validate_interval
\* accepts, in ms or in seconds, is preserved under the key 'interval'.
C21_LegalInputIsPreserved ==
  (result.fn = "sanitize_input" /\ LegalInput(call.key, call.value))
    => result = Returned(call.value)

\* C22: validate_all_settings reports valid = false only when the
\* coordinates-against-screen check or the variation-against-interval check
\* fails; every other out-of-range raw field is clamped by sanitize_input
\* and produces no error.
C22_OnlyScreenAndVariationErrors ==
  (result.fn = "validate_all_settings" /\ result.outcome = "returned")
    => result.errors \subseteq {"coordinates", "variation"}

\* the sanitized value of every key of the mapping (lines 195-196)
SanitizedOf(settings) ==
  [k \in DOMAIN settings |-> sanitize_input(k, settings[k]).value]

\* C23: validate_all_settings sanitizes first and validates second: each
\* error is reported exactly when its validation rule rejects the sanitized
\* values, valid is true exactly when there is no error, and
\* sanitized_settings maps every key of the input to sanitize_input(key, value).
C23_SanitizeThenValidate ==
  (result.fn = "validate_all_settings" /\ result.outcome = "returned") =>
    LET s == SanitizedOf(call.settings)
        interval == Get(s, "interval", DEFAULT_SETTINGS["interval"]).f
        unit == Get(s, "interval_unit", DEFAULT_SETTINGS["interval_unit"]).s
        Val(key) == Get(s, key, DEFAULT_SETTINGS[key]).f
    IN  /\ result.sanitized_settings = s
        /\ result.valid <=> result.errors = {}
        /\ "coordinates" \in result.errors <=>
             ~validate_coordinate(Val("x_coord"), Val("y_coord"),
                                  ScreenWidth, ScreenHeight)
        /\ "interval" \in result.errors <=> ~validate_interval(interval, unit)
        /\ "variation" \in result.errors <=>
             ~validate_variation(Val("variation"), interval, unit)
        /\ "burst" \in result.errors <=>
             ~validate_burst_settings(Val("burst_clicks"), Val("burst_pause"))
        /\ "max_clicks" \in result.errors <=> ~validate_clicks(Val("max_clicks"))
        /\ "auto_stop" \in result.errors <=>
             ~validate_minutes(Val("auto_stop_minutes"))
        /\ result.errors \subseteq {"coordinates", "interval", "variation",
                                    "burst", "max_clicks", "auto_stop"}

\* a raw interval of 70000 ms was clamped to 60000 and reported no error
C23_Witness ==
  /\ result.fn = "validate_all_settings"
  /\ result.outcome = "returned"
  /\ call.settings.interval = Num(Fin(70000))
  /\ call.settings.interval_unit = Str("ms")
  /\ result.sanitized_settings.interval = Num(Fin(60000))
  /\ result.valid

\* the store has for key k the value the last write of its file was given
GivenBack(s, k) ==
  Value(_settings[s][k], heap) = lastSaved[settings_file[s]].explicit[k]

DocumentedDefaults ==
  [ k \in AllKeys |->
      IF k = "presets" THEN [t |-> "dict", items |-> NoPresets]
      ELSE IF k \in Keys THEN DEFAULT_SETTINGS[k] ELSE Absent ]

\* C25: on load, every documented key absent from the settings file takes
\* its documented default, every key present takes the file's value, keys
\* the store does not know are kept, and a missing or unreadable file yields
\* exactly the defaults.
C25_LoadMergesDefaults ==
  call.fn = "open" =>
    LET file == files[call.file]
    IN  /\ result.exc = "none"
        /\ IF file.kind = "object" /\ call.io = "ok"
           THEN \A k \in AllKeys :
                  get_all(call.store)[k] =
                    IF file.members[k].j = "absent" THEN DocumentedDefaults[k]
                    ELSE IF file.members[k].j = "object"
                    THEN [t |-> "dict", items |-> file.members[k].members]
                    ELSE JsonLoad(file.members[k], 0)
           ELSE get_all(call.store) = DocumentedDefaults

\* C26: when writing the settings file fails with an I/O error, set, update
\* and reset_to_defaults do not raise and the store in memory holds the new
\* value: a following get returns it.
C26_FailedSaveKeepsMemory ==
  (call.fn \in {"set", "update", "reset_to_defaults"} /\ call.io # "ok") =>
    /\ result.exc = "none"
    /\ call.fn = "set" => get(call.store, call.key, Absent) = call.value
    /\ call.fn = "update" =>
         \A k \in AllKeys :
           call.settings_dict[k] # Absent =>
             get(call.store, k, Absent) = call.settings_dict[k]
    /\ call.fn = "reset_to_defaults" =>
         \A k \in AllKeys : get(call.store, k, Absent) = DefaultsCopy[k]

\* a set whose write emptied the file left the value in the store
C26_Witness ==
  /\ call.fn = "set" /\ call.io = "write_failed" /\ call.key = "x_coord"
  /\ files[settings_file[call.store]] = Truncated
  /\ get(call.store, "x_coord", Absent) = Num(Fin(500))

\* C27: after reset_to_defaults(), get_all() equals the documented defaults
\* for every key, with an empty presets map, whatever was set, updated or
\* saved as a preset before on this or another store instance.
C27_ResetGivesDefaults ==
  call.fn = "reset_to_defaults" => get_all(call.store) = DocumentedDefaults

\* no other store instance is open on the settings file of s
Alone(s) ==
  \A t \in Stores \ {s} : opened[t] => settings_file[t] # settings_file[s]

\* C28: after save_preset(name, x, y) returned True, load_preset(name)
\* returns exactly (x, y) until that name is saved again or deleted in the
\* store; a save replaces the coordinates of its name only.
C28_SavedPresetIsLoaded ==
  \A s \in Stores :
    (opened[s] /\ Alone(s)) =>
      \A n \in savedHere[s] : load_preset(s, n) = expected[s][n]

\* C29: load_preset(name) returns None and get_preset_names() omits the name
\* for every name never saved in the store or deleted from it; a store
\* opened on a new or empty settings file has no presets, whatever was saved
\* through other store instances.
C29_UnsavedPresetIsNotFound ==
  \A s \in Stores :
    (opened[s] /\ Alone(s)) =>
      \A n \in Names :
        expected[s][n] = NoPreset =>
          load_preset(s, n) = NoPreset /\ n \notin get_preset_names(s)

\* C30: delete_preset(name) on an existing preset returns True, after it
\* load_preset(name) returns None and every other preset is unchanged;
\* delete_preset on a name that is not stored returns False and leaves the
\* store unchanged.
C30_DeleteRemovesOnlyTheName ==
  [][ (call'.fn = "delete_preset" /\ ops' = ops + 1) =>
        LET s == call'.store
            n == call'.name
        IN  IF load_preset(s, n) # NoPreset
            THEN /\ result'.ret = "True"
                 /\ heap'[_settings'[s]["presets"].ref][n] = NoPreset
                 /\ \A m \in Names \ {n} :
                      heap'[_settings'[s]["presets"].ref][m] = load_preset(s, m)
            ELSE /\ result'.ret = "False"
                 /\ UNCHANGED <<_settings, heap, files>> ]_vars

\* one of two presets was deleted and the other one is still loaded
C30_Witness ==
  /\ call.fn = "delete_preset" /\ call.name = "Home"
  /\ result.ret = "True"
  /\ load_preset(call.store, "Home") = NoPreset
  /\ load_preset(call.store, "Work") = <<100, 200>>

\* no thread is inside the picker and no handler is left to run
PickerIdle == pending = 0 /\ \A th \in PickerThreads : ppc[th] = "idle"

\* C31: each picking session started by a successful start_picking ends
\* with exactly one callback, on_selected once after a press of the primary
\* button or on_cancelled once after an abort, and a session that ends by
\* selection never invokes on_cancelled.  Stated for the sessions that were
\* given an on_cancelled callback, while that callback is the registered one.
C31_ExactlyOneCallback ==
  (sessions > 0 /\ sessionCancel # "None" /\ on_cancelled = sessionCancel) =>
    /\ selectedCalls + cancelledCalls <= 1
    /\ (~is_active /\ PickerIdle) => selectedCalls + cancelledCalls = 1

\* C32: start_picking called while a picking session is active returns
\* False and leaves the session unchanged: is_active stays true, the
\* callbacks of the first call are kept and no second hook is installed.
C32_RejectedStartKeepsSession ==
  [][(picks' = picks + 1 /\ is_active) =>
       /\ result'.ret = FALSE
       /\ is_active'
       /\ on_coordinate_selected' = on_coordinate_selected
       /\ on_cancelled' = on_cancelled
       /\ hooks' = hooks
       /\ UNCHANGED <<sessions, sessionCancel, selectedCalls, cancelledCalls>>]_vars

\* a second start_picking with other callbacks was rejected during a session
C32_Witness ==
  /\ call.fn = "start_picking" /\ result.ret = FALSE
  /\ is_active /\ hooks = 1 /\ picks = 2
  /\ call.on_selected # on_coordinate_selected
  /\ call.on_cancelled # on_cancelled

\* C33: the status shown when a run ends tells which reason ended it; after
\* an emergency stop, once the loop has exited and its completion callback
\* has run, the status shown is still the emergency one: the callback does
\* not overwrite it with the generic stopped status.
C33_EmergencyStatusIsKept ==
  [][(estopped /\ status_var = "Emergency Stop" /\ seen' # seen) =>
       status_var' = "Emergency Stop"]_vars

\* C34: during a run the loop invokes on_status_update after each state
\* change, at least once after every click that increments click_count: when
\* the loop of the only run so far is about to click again or has left its
\* while loop, and the handler that started it has returned, the window
\* shows the current click count.
C34_StatusUpdateAfterEachClick ==
  \A t \in Threads :
    (nThreads = 1 /\ t = 1 /\ apc = "idle"
       /\ (pc[t] = "perform_click" \/ Exited(t))) =>
      click_count_var = click_count

\* C35: validate_clicks, validate_minutes and validate_variation, given a
\* value that is not an integer, return the pair (False, reason) and do not
\* raise.
C35_NonIntegerIsRejected ==
  (result.fn \in {"validate_clicks", "validate_minutes", "validate_variation"}
     /\ ~Integral(call.value)) =>
    /\ result.outcome = "returned"
    /\ result.ok = FALSE
    /\ result.reason # ""

\* C36: create_user_friendly_error returns a message, without raising, for
\* every class of the taxonomy and for any other exception; a class it does
\* not recognize gets the generic unexpected-error message with no internal
\* detail in it.
Recognized ==
  {"ValidationError", "CoordinateError", "SafetyError", "DependencyError",
   "ValueError", "TypeError", "PermissionError", "OSError"}
C36_FriendlyMessageForEveryError ==
  result.fn = "create_user_friendly_error" =>
    /\ result.outcome = "returned"
    /\ (\A cls \in Recognized : ~IsInstance(call.error.type, cls)) =>
         /\ result.template = "An unexpected error occurred:"
         /\ result.detail = <<>>

\* C37: within one burst the loop re-reads the running flag before each
\* click, performs at most burst_clicks clicks, and sleeps burst_pause between
\* consecutive clicks but not after the last click of the burst, and never
\* when burst_clicks = 1.
C37_BurstChecksAndPauses ==
  [][\A t \in Threads :
       LET n == args[t].burst_clicks
       IN  /\ (pc[t] # "perform_click" /\ pc'[t] = "perform_click") =>
                pc[t] = "for" /\ Running /\ idx[t] < n
           /\ (pc[t] = "for" /\ pc'[t] = "if_wait") =>
                idx[t] >= n \/ ~Running
           /\ (pc[t] # "burst_sleep" /\ pc'[t] = "burst_sleep") =>
                /\ pc[t] = "count" /\ n > 1 /\ idx[t] < n - 1
                /\ sleepLeft'[t] = args[t].burst_pause
           /\ (pc[t] = "count" /\ pc'[t] # "count") =>
                IF idx[t] < n - 1
                THEN pc'[t] = "burst_sleep" /\ idx'[t] = idx[t]
                ELSE pc'[t] = "for" /\ idx'[t] = idx[t] + 1
           /\ (pc[t] = "burst_sleep" /\ pc'[t] # "burst_sleep") =>
                sleepLeft[t] = 0 /\ pc'[t] = "for" /\ idx'[t] = idx[t] + 1
           /\ (pc[t] = "should_stop" /\ pc'[t] = "for") => idx'[t] = 0]_vars

\* a burst of two clicks done: both counted, the pause between them over
C37_Witness ==
  \E t \in Threads :
    /\ pc[t] = "if_wait" /\ args[t].burst_clicks = 2 /\ idx[t] = 2
    /\ runClicks = 2 /\ Running

\* C38: the stop conditions are evaluated at the start of every loop
\* iteration, before the burst; once a checkpoint finds the click limit or
\* the runtime limit reached, the loop performs no further click and no
\* further sleep before it exits.
C38_LimitCheckedBeforeEveryBurst ==
  [][\A t \in Threads :
       /\ (pc[t] = "while" /\ pc'[t] # "while") =>
            pc'[t] = (IF Running THEN "should_stop" ELSE "complete")
       /\ (pc[t] = "should_stop" /\ pc'[t] # "should_stop") =>
            IF ShouldStop(args[t].max_clicks, args[t].auto_stop_minutes)
            THEN pc'[t] = "complete" /\ exitReason'[t] = "limit"
            ELSE pc'[t] = "for"
       /\ (pc[t] \notin {"for", "count", "burst_sleep"} /\ pc'[t] = "for") =>
            /\ pc[t] = "should_stop"
            /\ ~ShouldStop(args[t].max_clicks, args[t].auto_stop_minutes)
       /\ (exitReason[t] = "limit" /\ Exited(t)) => Exited(t)'
       /\ exitReason'[t] = "limit" => Exited(t)']_vars

\* a loop that found its click limit reached and exited
C38_Witness ==
  \E t \in Threads :
    /\ exitReason[t] = "limit" /\ pc[t] = "dead"
    /\ args[t].max_clicks > 0 /\ click_count >= args[t].max_clicks

\* C39: between calls of enable_click_queuing, start_clicking, stop_clicking
\* and emergency_stop, whenever enable_queuing is true a queue consumer is
\* alive.
C39_QueuingHasConsumer ==
  (enable_queuing /\ caller = "idle") =>
    queue_processor_thread # None /\ QIsAlive(queue_processor_thread)
====
